---- MODULE Spec2Model ----
(***************************************************************************)
(* A model of cli/tools/installer.rs: `deno install`.                      *)
(*                                                                         *)
(* Strings the code inspects character by character (executable names,     *)
(* URL paths, file names) are sequences of one-character strings.  Option  *)
(* values are sequences of length at most one: <<>> is None, <<v>> is      *)
(* Some(v).                                                                *)
(***************************************************************************)
EXTENDS Integers, Sequences, FiniteSets, TLC

VARIABLES dialect, bin, files, call, ncalls, pure, env, last_write

vars == <<dialect, bin, files, call, ncalls, pure, env, last_write>>

None == <<>>

Some(v) == <<v>>

IsSome(o) == Len(o) = 1

Unwrap(o) == o[1]

(***************************************************************************)
(* Characters                                                              *)
(***************************************************************************)
Lower ==
  {"a","b","c","d","e","f","g","h","i","j","k","l","m",
   "n","o","p","q","r","s","t","u","v","w","x","y","z"}

Upper ==
  {"A","B","C","D","E","F","G","H","I","J","K","L","M",
   "N","O","P","Q","R","S","T","U","V","W","X","Y","Z"}

Digit == {"0","1","2","3","4","5","6","7","8","9"}

\* A character beyond ASCII is written by its code point.  The two that
\* fold to an ASCII letter under the regex crate's simple case folding:
\* LATIN SMALL LETTER LONG S and KELVIN SIGN.
FoldsToLetter == {"U+017F", "U+212A"}

\* Of the class \w of the regex crate beyond ASCII (Alphabetic, Mark,
\* Decimal_Number, Connector_Punctuation, Join_Control), one character of
\* each kind: e with acute, combining acute accent, arabic-indic digit one,
\* undertie, zero width joiner.
UnicodeWord == {"U+00E9", "U+0301", "U+0661", "U+203F", "U+200D"}

\* The class \w of the regex crate, which is Unicode-aware unless the
\* builder is told otherwise.
WordChar ==
  Lower \cup Upper \cup Digit \cup {"_"} \cup FoldsToLetter \cup UnicodeWord

(***************************************************************************)
(* Sequence helpers                                                        *)
(***************************************************************************)
RECURSIVE IndexOf(_, _, _)
\* The least index >= i of s holding c, or 0.
IndexOf(s, c, i) ==
  IF i > Len(s) THEN 0
  ELSE IF s[i] = c THEN i
  ELSE IndexOf(s, c, i + 1)

RECURSIVE LastIndexOf(_, _, _)
\* The greatest index <= i of s holding c, or 0.
LastIndexOf(s, c, i) ==
  IF i < 1 THEN 0
  ELSE IF s[i] = c THEN i
  ELSE LastIndexOf(s, c, i - 1)

RECURSIVE SplitOn(_, _)
\* str::split: the pieces of s between the occurrences of c.
SplitOn(s, c) ==
  LET i == IndexOf(s, c, 1) IN
    IF i = 0 THEN <<s>>
    ELSE <<SubSeq(s, 1, i - 1)>> \o SplitOn(SubSeq(s, i + 1, Len(s)), c)

RECURSIVE JoinWith(_, _)
\* The sequences of ss concatenated, sep between them.
JoinWith(ss, sep) ==
  IF ss = <<>> THEN <<>>
  ELSE IF Len(ss) = 1 THEN ss[1]
  ELSE ss[1] \o sep \o JoinWith(Tail(ss), sep)

RECURSIVE Text(_)
\* The string spelled by a sequence of string pieces.
Text(s) == IF s = <<>> THEN "" ELSE s[1] \o Text(Tail(s))

IsPrefix(s, t) == Len(s) <= Len(t) /\ SubSeq(t, 1, Len(s)) = s

(***************************************************************************)
(* std::path on '/'-separated paths                                        *)
(***************************************************************************)
\* Path::components without the root: empty and "." pieces are skipped.
Components(path) ==
  SelectSeq(SplitOn(path, "/"), LAMBDA seg : seg # <<>> /\ seg # <<".">>)

\* Path::file_name: the last component, unless it is "..".
file_name(path) ==
  LET comps == Components(path) IN
    IF comps = <<>> THEN None
    ELSE IF comps[Len(comps)] = <<".", ".">> THEN None
    ELSE Some(comps[Len(comps)])

\* The split of a file name at its last dot: <<before, after>>, both Options.
rsplit_file_at_dot(file) ==
  LET i == LastIndexOf(file, ".", Len(file)) IN
    IF file = <<".", ".">> THEN <<Some(file), None>>
    ELSE IF i = 0 THEN <<Some(file), None>>
    ELSE IF i = 1 THEN <<Some(file), None>>
    ELSE <<Some(SubSeq(file, 1, i - 1)), Some(SubSeq(file, i + 1, Len(file)))>>

\* Path::file_stem
file_stem(path) ==
  IF file_name(path) = None THEN None
  ELSE rsplit_file_at_dot(Unwrap(file_name(path)))[1]

\* Path::parent: the path without its last component; None for the root.
parent(path) ==
  LET comps == Components(path) IN
    IF comps = <<>> THEN None
    ELSE Some(<<"/">> \o JoinWith(SubSeq(comps, 1, Len(comps) - 1), <<"/">>))

set_extension_appending(file, ext) ==
  IF ext = <<>> THEN Unwrap(rsplit_file_at_dot(file)[1]) ELSE file \o <<".">> \o ext

\* PathBuf::set_extension on a file name: the part after the last dot is
\* replaced by ext; an empty ext removes it together with the dot.
set_extension(file, ext) ==
  LET stem == Unwrap(rsplit_file_at_dot(file)[1]) IN
    IF ext = <<>> THEN stem ELSE stem \o <<".">> \o ext

(***************************************************************************)
(* NameResolver                                                            *)
(***************************************************************************)
EXEC_NAME_RE_unanchored(exec_name) ==
  /\ exec_name # <<>>
  /\ exec_name[1] \in Lower \cup Upper \cup FoldsToLetter

\* EXEC_NAME_RE = ^[a-z][\w-]*$, case-insensitive: [a-z] matches what folds
\* to a letter of a-z, and $ matches at the end of the text only.
EXEC_NAME_RE_is_match(exec_name) ==
  /\ exec_name # <<>>
  /\ exec_name[1] \in Lower \cup Upper \cup FoldsToLetter
  /\ \A i \in 2..Len(exec_name) : exec_name[i] \in WordChar \cup {"-"}

validate_name_unchecked(exec_name) == exec_name # <<>>

validate_name(exec_name) == EXEC_NAME_RE_is_match(exec_name)

ReservedStems ==
  { <<"m","a","i","n">>, <<"m","o","d">>, <<"i","n","d","e","x">>, <<"c","l","i">> }

\* str::splitn(2, '@').next(): the part before the first '@'.
BeforeAt(s) ==
  LET i == IndexOf(s, "@", 1) IN
    IF i = 0 THEN s ELSE SubSeq(s, 1, i - 1)

InferStemNoParent(path) ==
  Unwrap(file_stem(path))

\* The variable `stem` of infer_name_from_url before the '@' split;
\* path has a file stem.
InferStem(path) ==
  LET stem == Unwrap(file_stem(path)) IN
    IF stem \in ReservedStems
         /\ parent(path) # None
         /\ file_name(Unwrap(parent(path))) # None
    THEN Unwrap(file_name(Unwrap(parent(path))))
    ELSE stem

InferNoSplit(path) ==
  IF file_stem(path) = None THEN None ELSE Some(InferStem(path))

\* infer_name_from_url, of the URL's path.
infer_name_from_url(path) ==
  IF file_stem(path) = None THEN None
  ELSE Some(BeforeAt(InferStem(path)))

(***************************************************************************)
(* Argument tokens.  A token is a sequence of string pieces; a character   *)
(* the escaping code treats specially is always a piece of its own, and    *)
(* every longer piece is a run of characters the escaping code passes on.  *)
(***************************************************************************)
Tok(s) == <<s>>

\* shell_escape's non_whitelisted, of a piece: everything but
\* a-z A-Z 0-9 - _ = / , . + needs quoting.
non_whitelisted(piece) ==
  piece \in {":", "@", "'", "\"", " ", "%", "!", "$", "\\", "*", "&", ";", "?", "#"}

\* The sequences F(s[1]), F(s[2]), ... concatenated.
FlatMap(s, F(_)) == JoinWith([i \in 1..Len(s) |-> F(s[i])], <<>>)

\* shell_escape::escape (unix): a token of whitelisted characters is passed
\* on; any other is single-quoted, with ' and ! spliced in as '\'' and '\!'.
escape(tok) ==
  IF tok # <<>> /\ \A i \in 1..Len(tok) : ~non_whitelisted(tok[i])
  THEN tok
  ELSE <<"'">>
       \o FlatMap(tok, LAMBDA ch : IF ch \in {"'", "!"}
                                    THEN <<"'\\", ch, "'">> ELSE <<ch>>)
       \o <<"'">>

\* format!("\"{}\"", c)
DQuote(tok) == <<"\"">> \o tok \o <<"\"">>

\* arg.replace("%", "%%")
DoublePercent(tok) ==
  FlatMap(tok, LAMBDA ch : IF ch = "%" THEN <<"%%">> ELSE <<ch>>)

\* iter().map(F).collect()
MapSeq(s, F(_)) == [i \in 1..Len(s) |-> F(s[i])]

\* args.join(" "), as one string
JoinArgs(args) == Text(JoinWith(args, <<" ">>))

(***************************************************************************)
(* ScriptEmitter: the text of each generated file, as its lines            *)
(***************************************************************************)
\* The template of generate_executable_file (not windows).
PosixScript(args) ==
  << "#!/bin/sh",
     "# generated by deno install",
     "exec deno " \o JoinArgs(MapSeq(args, escape)) \o " \"$@\"" >>

\* The first template of generate_executable_file (windows): the .cmd file.
CmdScript(args) ==
  << "% generated by deno install %",
     "@deno " \o JoinArgs(MapSeq(MapSeq(args, DQuote), DoublePercent)) \o " %*" >>

\* The second template of generate_executable_file (windows): the file for
\* bash, at the path without extension.
CompanionScript(args) ==
  << "#!/bin/sh",
     "# generated by deno install",
     "deno " \o JoinArgs(MapSeq(args, DQuote)) \o " \"$@\"" >>

\* The arguments of each template before they are made one string: the
\* pieces of the mapped tokens, a space between two tokens.
PosixArgPieces(args) == JoinWith(MapSeq(args, escape), <<" ">>)

CmdArgPieces(args) ==
  JoinWith(MapSeq(MapSeq(args, DQuote), DoublePercent), <<" ">>)

CompanionArgPieces(args) == JoinWith(MapSeq(args, DQuote), <<" ">>)

(***************************************************************************)
(* The inputs of install                                                   *)
(***************************************************************************)
\* A module or import-map reference and what resolve_url_or_path makes of
\* it: whether it resolves, the URL's text as token pieces, the URL's path.
ModEcho ==
  [ resolves |-> TRUE,
    url |-> <<"http", ":", "//localhost", ":", "4545/echo_server.ts">>,
    path |-> <<"/","e","c","h","o","_","s","e","r","v","e","r",".","t","s">> ]

ModCat ==
  [ resolves |-> TRUE,
    url |-> <<"http", ":", "//localhost", ":", "4545/cat.ts">>,
    path |-> <<"/","c","a","t",".","t","s">> ]

ModBare ==
  [ resolves |-> TRUE,
    url |-> <<"https", ":", "//example.com/">>,
    path |-> <<"/">> ]

ModBad ==
  [ resolves |-> FALSE, url |-> <<>>, path |-> <<>> ]

ImportMap ==
  [ resolves |-> TRUE,
    url |-> <<"file", ":", "///tmp/import_map.json">>,
    path |-> <<"/","t","m","p">> ]

\* The source files a config or lock path can name, with their content.
\* A path outside the domain cannot be read.
SourceFiles ==
  [ p \in {"test_tsconfig.json", "lock.json"} |->
      IF p = "test_tsconfig.json" THEN <<"{}">> ELSE <<"{", "}">> ]

\* fs::read_to_string
read_to_string(path) ==
  IF path \in DOMAIN SourceFiles THEN Some(SourceFiles[path]) ELSE None

\* Flags::default(), the fields install reads.
DefaultFlags ==
  [ allow_read |-> FALSE, allow_net |-> FALSE,
    location |-> None, ca_file |-> None, log_level |-> None,
    no_check |-> FALSE, unstable |-> FALSE, no_remote |-> FALSE,
    lock_write |-> FALSE, cached_only |-> FALSE, v8_flags |-> <<>>,
    seed |-> None, inspect |-> None, inspect_brk |-> None,
    import_map_path |-> None, config_path |-> None, lock |-> None ]

\* log::Level
Levels == {"Error", "Warn", "Info", "Debug", "Trace"}

(***************************************************************************)
(* ArgumentSerializer: install, from `let mut extra_files` to the last     *)
(* push onto executable_args                                               *)
(***************************************************************************)
\* installation_dir, as the text root.join("bin") of the tests' root
InstallationDir == <<"/tmp/root/bin">>

\* PathBuf::to_str of a file of the installation directory
PathToken(file) == InstallationDir \o <<"/">> \o file

TSCONFIG_EXT == <<"t","s","c","o","n","f","i","g",".","j","s","o","n">>

LOCK_EXT == <<"l","o","c","k",".","j","s","o","n">>

CMD_EXT == <<"c","m","d">>

\* Flags::to_permission_args, for the two grants the tests use.
to_permission_args(flags) ==
  (IF flags.allow_read THEN <<Tok("--allow-read")>> ELSE <<>>)
  \o (IF flags.allow_net THEN <<Tok("--allow-net")>> ELSE <<>>)

LogLevelArgsOneToken(log_level) ==
  IF log_level = None THEN <<>>
  ELSE IF Unwrap(log_level) = "Error" THEN <<Tok("--quiet")>>
  ELSE <<Tok(IF Unwrap(log_level) = "Debug"
               THEN "--log-level=debug" ELSE "--log-level=info")>>

\* The tokens of `if let Some(log_level) = flags.log_level { .. }`; the
\* level is one the match arm accepts.
LogLevelArgs(log_level) ==
  IF log_level = None THEN <<>>
  ELSE IF Unwrap(log_level) = "Error" THEN <<Tok("--quiet")>>
  ELSE <<Tok("--log-level"),
         Tok(IF Unwrap(log_level) = "Debug" THEN "debug" ELSE "info")>>

\* The first error of the serialization, if any, in the order of the code.
SerializeError(flags) ==
  IF flags.log_level # None
       /\ Unwrap(flags.log_level) \notin {"Error", "Debug", "Info"}
    THEN Some("InvalidLogLevel")
  ELSE IF flags.import_map_path # None /\ ~Unwrap(flags.import_map_path).resolves
    THEN Some("UrlResolution")
  ELSE IF flags.config_path # None /\ read_to_string(Unwrap(flags.config_path)) = None
    THEN Some("AuxiliaryFileRead")
  ELSE IF flags.lock # None /\ read_to_string(Unwrap(flags.lock)) = None
    THEN Some("AuxiliaryFileRead")
  ELSE None

ExtraFilesLockFirst(flags, file_path) ==
  (IF flags.lock # None
     THEN << <<set_extension(file_path, LOCK_EXT),
               Unwrap(read_to_string(Unwrap(flags.lock)))>> >>
     ELSE <<>>)
  \o (IF flags.config_path # None
        THEN << <<set_extension(file_path, TSCONFIG_EXT),
                  Unwrap(read_to_string(Unwrap(flags.config_path)))>> >>
        ELSE <<>>)

ExtraFilesWithImportMap(flags, file_path) ==
  (IF flags.config_path # None
     THEN << <<set_extension(file_path, TSCONFIG_EXT),
               Unwrap(read_to_string(Unwrap(flags.config_path)))>> >>
     ELSE <<>>)
  \o (IF flags.lock # None
        THEN << <<set_extension(file_path, LOCK_EXT),
                  Unwrap(read_to_string(Unwrap(flags.lock)))>> >>
        ELSE <<>>)
  \o (IF flags.import_map_path # None
        THEN << <<set_extension(file_path, <<"i","m","p","o","r","t","m","a","p">>),
                  <<"{}">>>> >>
        ELSE <<>>)

\* extra_files: (copy path, content) of the config and of the lock file.
ExtraFiles(flags, file_path) ==
  (IF flags.config_path # None
     THEN << <<set_extension(file_path, TSCONFIG_EXT),
               Unwrap(read_to_string(Unwrap(flags.config_path)))>> >>
     ELSE <<>>)
  \o (IF flags.lock # None
        THEN << <<set_extension(file_path, LOCK_EXT),
                  Unwrap(read_to_string(Unwrap(flags.lock)))>> >>
        ELSE <<>>)

\* The tokens pushed from "run" to the inspector flags.
RuntimeArgs(flags) ==
  <<Tok("run")>>
  \o to_permission_args(flags)
  \o (IF flags.location # None
        THEN <<Tok("--location"), Unwrap(flags.location)>> ELSE <<>>)
  \o (IF flags.ca_file # None
        THEN <<Tok("--cert"), Unwrap(flags.ca_file)>> ELSE <<>>)
  \o LogLevelArgs(flags.log_level)
  \o (IF flags.no_check THEN <<Tok("--no-check")>> ELSE <<>>)
  \o (IF flags.unstable THEN <<Tok("--unstable")>> ELSE <<>>)
  \o (IF flags.no_remote THEN <<Tok("--no-remote")>> ELSE <<>>)
  \o (IF flags.lock_write THEN <<Tok("--lock-write")>> ELSE <<>>)
  \o (IF flags.cached_only THEN <<Tok("--cached-only")>> ELSE <<>>)
  \o (IF flags.v8_flags # <<>>
        THEN <<Tok("--v8-flags=" \o Text(JoinWith(MapSeq(flags.v8_flags, Tok), <<",">>)))>>
        ELSE <<>>)
  \o (IF flags.seed # None
        THEN <<Tok("--seed"), Tok(ToString(Unwrap(flags.seed)))>> ELSE <<>>)
  \o (IF flags.inspect # None
        THEN <<Tok("--inspect=") \o Unwrap(flags.inspect)>> ELSE <<>>)
  \o (IF flags.inspect_brk # None
        THEN <<Tok("--inspect-brk=") \o Unwrap(flags.inspect_brk)>> ELSE <<>>)

\* The tokens pushed for the import map, the config and the lock file.
FileArgs(flags, file_path) ==
  (IF flags.import_map_path # None
     THEN <<Tok("--import-map"), Unwrap(flags.import_map_path).url>> ELSE <<>>)
  \o (IF flags.config_path # None
        THEN <<Tok("--config"), PathToken(set_extension(file_path, TSCONFIG_EXT))>>
        ELSE <<>>)
  \o (IF flags.lock # None
        THEN <<Tok("--lock"), PathToken(set_extension(file_path, LOCK_EXT))>>
        ELSE <<>>)

ExecutableArgsModuleBeforeFiles(flags, module_url, args, file_path) ==
  RuntimeArgs(flags) \o <<module_url.url>> \o FileArgs(flags, file_path) \o args

\* executable_args, when the serialization ends without an error.
ExecutableArgs(flags, module_url, args, file_path) ==
  RuntimeArgs(flags) \o FileArgs(flags, file_path) \o <<module_url.url>> \o args

(***************************************************************************)
(* The state                                                               *)
(*   dialect  the platform of the build: cfg!(windows) or not              *)
(*   bin      what <root>/bin is: "missing", "dir" or "file"               *)
(*   files    the regular files of <root>/bin: file name -> content, mode  *)
(*   call     per process, the install call it is in and where             *)
(*   ncalls   the number of calls made                                     *)
(*   pure     the input and output of a function applied on its own        *)
(***************************************************************************)
MaxCalls == 2

\* permissions.set_mode(0o755)
MODE_EXEC == "0o755"

\* The mode File::create gives a new file: 0o666 less the umask.
MODE_DEFAULT == "default"

ROOT_DIR == "/tmp/root"

MISSING_DIR == "/tmp/gone"

\* A symbolic link to ROOT_DIR.
LINK_DIR == "/tmp/link"

\* canonicalize_path: the directory must exist; a link is resolved.
canonicalize_path(root) ==
  IF root \in {ROOT_DIR, LINK_DIR} THEN Some(ROOT_DIR) ELSE None

\* Path::join and PathBuf::push of a relative component, the separator
\* written '/'.
join(path, component) == path \o "/" \o component

\* The environment without the variables get_installer_root reads.
NoEnv == [DENO_INSTALL_ROOT |-> None, HOME |-> None, USERPROFILE |-> None]

get_installer_root_taking_empty(e) ==
  IF e.DENO_INSTALL_ROOT # None
    THEN LET canonical == canonicalize_path(Unwrap(e.DENO_INSTALL_ROOT)) IN
           IF canonical = None THEN [error |-> Some("RootIo"), root |-> None]
           ELSE [error |-> None, root |-> canonical]
  ELSE LET home_env_var == IF dialect = "windows" THEN "USERPROFILE" ELSE "HOME" IN
         IF e[home_env_var] = None
           THEN [error |-> Some("HomeNotFound"), root |-> None]
         ELSE [error |-> None, root |-> Some(join(Unwrap(e[home_env_var]), ".deno"))]

\* get_installer_root, of the environment e: env::var and env::var_os give
\* None for a variable that is not set.
get_installer_root(e) ==
  IF e.DENO_INSTALL_ROOT # None /\ Unwrap(e.DENO_INSTALL_ROOT) # ""
    THEN LET canonical == canonicalize_path(Unwrap(e.DENO_INSTALL_ROOT)) IN
           IF canonical = None THEN [error |-> Some("RootIo"), root |-> None]
           ELSE [error |-> None, root |-> canonical]
  ELSE LET home_env_var == IF dialect = "windows" THEN "USERPROFILE" ELSE "HOME" IN
         IF e[home_env_var] = None
           THEN [error |-> Some("HomeNotFound"), root |-> None]
         ELSE [error |-> None, root |-> Some(join(Unwrap(e[home_env_var]), ".deno"))]

\* `let root = if let Some(root) = root { .. } else { .. }` of install
RootOf(root, e) ==
  IF root # None
    THEN LET canonical == canonicalize_path(Unwrap(root)) IN
           IF canonical = None THEN [error |-> Some("RootIo"), root |-> None]
           ELSE [error |-> None, root |-> canonical]
  ELSE get_installer_root(e)

\* installation_dir = root.join("bin")
installation_dir(root) == join(root, "bin")

\* The environment of the test install_custom_dir_env_var: every root that
\* resolves under it is ROOT_DIR, whose bin the variables bin and files
\* describe.
TestEnv ==
  [ DENO_INSTALL_ROOT |-> Some(ROOT_DIR), HOME |-> Some("/tmp/home"),
    USERPROFILE |-> Some("/tmp/home") ]

ECHO_TEST == <<"e","c","h","o","_","t","e","s","t">>

INVALID_NAME == <<"a","b","c","@","1">>

NameChoices == { None, Some(ECHO_TEST) }

ModuleChoices == { ModEcho, ModCat }

FlagChoices ==
  { DefaultFlags,
    [DefaultFlags EXCEPT !.log_level = Some("Warn")],
    [DefaultFlags EXCEPT !.import_map_path = Some(ImportMap),
                         !.config_path = Some("test_tsconfig.json"),
                         !.lock = Some("lock.json")],
    [DefaultFlags EXCEPT !.config_path = Some("test_tsconfig.json"),
                         !.lock = Some("gone.json")],
    [DefaultFlags EXCEPT !.config_path = Some("gone.json")] }

\* The calls made: every combination of the choices above under the
\* tests' root; calls whose name is missing or invalid; calls that leave
\* the root to the environment or name a root that is not there; calls
\* whose module reference does not resolve.
Requests ==
  [ flags : FlagChoices, module_url : ModuleChoices, args : { <<>> },
    name : NameChoices, root : { Some(ROOT_DIR) }, force : BOOLEAN ]
  \cup
  [ flags : { DefaultFlags, [DefaultFlags EXCEPT !.log_level = Some("Warn")] },
    module_url : { ModBare }, args : { <<>> },
    name : { None, Some(INVALID_NAME) }, root : { Some(ROOT_DIR) },
    force : BOOLEAN ]
  \cup
  [ flags : { DefaultFlags }, module_url : { ModEcho }, args : { <<>> },
    name : { Some(ECHO_TEST) }, root : { None, Some(MISSING_DIR) },
    force : BOOLEAN ]
  \cup
  [ flags : { DefaultFlags, [DefaultFlags EXCEPT !.log_level = Some("Warn")] },
    module_url : { ModBad }, args : { <<>> },
    name : { Some(ECHO_TEST) }, root : { Some(ROOT_DIR) }, force : BOOLEAN ]

NoRequest ==
  [ flags |-> DefaultFlags, module_url |-> ModBad, args |-> <<>>,
    name |-> None, root |-> None, force |-> FALSE ]

Idle ==
  [ pc |-> "idle", req |-> NoRequest, pre |-> <<>>, preBin |-> "missing",
    name |-> None, file_path |-> None, executable_args |-> <<>>,
    extra_files |-> <<>>, next_extra |-> 1, result |-> None, touched |-> {} ]

\* The processes there can be; those of a run are DOMAIN call.
Procs == {1, 2}

Active(p) == p \in DOMAIN call

Exists(f) == f \in DOMAIN files

Put(fs, f, v) == (f :> v) @@ fs

\* `return Err(..)` and the `?` of a failed step
Abort(c, err) == [c EXCEPT !.pc = "returned", !.result = Some(err)]

\* The strict prefixes of a text: what a failed write_all can leave.
Partial(content) == { SubSeq(content, 1, k) : k \in 0..(Len(content) - 1) }

\* File::create: a new file gets the default mode; an existing one is
\* truncated and keeps its mode.
Created(fs, f) ==
  Put(fs, f, [content |-> <<>>,
              mode |-> IF f \in DOMAIN fs THEN fs[f].mode ELSE MODE_DEFAULT])

RECURSIVE Size(_)
\* The length in bytes of a text: its lines, each with its line feed.
Size(content) ==
  IF content = <<>> THEN 0 ELSE Len(content[1]) + 1 + Size(Tail(content))

RECURSIVE Pad(_)
\* A line of n bytes, the line feed aside, of a text that was cut.
Pad(n) ==
  IF n = 0 THEN ""
  ELSE LET half == Pad(n \div 2) IN
         IF n % 2 = 0 THEN half \o half ELSE half \o half \o "~"

\* A write at offset 0 of a file opened in append mode: the data goes after
\* what the file holds.
OverlayAppending(data, cur) == cur \o data

\* write_all(data) through a descriptor at offset 0 of a file holding cur:
\* the bytes of cur beyond the length of data stay; they are what another
\* descriptor wrote after this one was opened.
Overlay(data, cur) ==
  IF Size(cur) > Size(data)
    THEN Append(data, Pad(Size(cur) - Size(data) - 1))
    ELSE data

ResolveNameOfInferFirst(name, module_url) ==
  LET inferred == infer_name_from_url(module_url.path)
      n == IF inferred # None THEN inferred ELSE name
  IN IF n = None THEN [error |-> Some("MissingName"), name |-> None]
     ELSE IF ~validate_name(Unwrap(n)) THEN [error |-> Some("InvalidName"), name |-> n]
     ELSE [error |-> None, name |-> n]

\* name.or_else(|| infer_name_from_url(&module_url)), the match on it and
\* validate_name; the invalid-name error carries the name.
ResolveNameOf(name, module_url) ==
  LET n == IF name # None THEN name ELSE infer_name_from_url(module_url.path) IN
    IF n = None THEN [error |-> Some("MissingName"), name |-> None]
    ELSE IF ~validate_name(Unwrap(n)) THEN [error |-> Some("InvalidName"), name |-> n]
    ELSE [error |-> None, name |-> n]

\* installation_dir.join(&name), with the extension cmd on windows
LauncherPath(name) ==
  IF dialect = "windows" THEN set_extension(name, CMD_EXT) ELSE name

\* install from `let root` to the conflict check, as far as paths go: the
\* root, installation_dir and file_path as texts, for a valid name.
InstallPathsOf(root, e, name) ==
  LET r == RootOf(root, e) IN
    IF r.error # None
      THEN [error |-> r.error, root |-> None, installation_dir |-> None,
            file_path |-> None]
    ELSE [error |-> None, root |-> r.root,
          installation_dir |-> Some(installation_dir(Unwrap(r.root))),
          file_path |-> Some(join(installation_dir(Unwrap(r.root)),
                                  Text(LauncherPath(name))))]

\* A call begins: install(flags, module_url, args, name, root, force).
Call(p) ==
  /\ Active(p)
  /\ call[p].pc \in {"idle", "returned"}
  /\ ncalls < MaxCalls
  /\ \E req \in Requests :
       call' = [call EXCEPT ![p] =
                  [Idle EXCEPT !.pc = "root", !.req = req,
                               !.pre = files, !.preBin = bin]]
  /\ ncalls' = ncalls + 1
  /\ UNCHANGED <<dialect, bin, files, pure, env, last_write>>

ResolveRootReplacingFile(p) ==
  /\ Active(p)
  /\ call[p].pc = "root"
  /\ LET r == RootOf(call[p].req.root, env) IN
       \/ /\ r.error # None
          /\ call' = [call EXCEPT ![p] = Abort(@, Unwrap(r.error))]
          /\ bin' = bin
       \/ /\ r.error = None
          /\ bin = "file"
          /\ call' = [call EXCEPT ![p] = Abort(@, "NotADirectory")]
          /\ bin' = "dir"
       \/ /\ r.error = None
          /\ bin = "dir"
          /\ call' = [call EXCEPT ![p].pc = "name"]
          /\ bin' = bin
       \/ /\ r.error = None
          /\ bin = "missing"
          /\ \/ /\ bin' = "dir"
                /\ call' = [call EXCEPT ![p].pc = "name"]
             \/ /\ bin' = bin
                /\ call' = [call EXCEPT ![p] = Abort(@, "CreateDirIo")]
  /\ UNCHANGED <<dialect, files, ncalls, pure, env, last_write>>

ResolveRootWithoutCreating(p) ==
  /\ Active(p)
  /\ call[p].pc = "root"
  /\ LET r == RootOf(call[p].req.root, env) IN
       \/ /\ r.error # None
          /\ call' = [call EXCEPT ![p] = Abort(@, Unwrap(r.error))]
       \/ /\ r.error = None
          /\ bin = "file"
          /\ call' = [call EXCEPT ![p] = Abort(@, "NotADirectory")]
       \/ /\ r.error = None
          /\ bin \in {"dir", "missing"}
          /\ call' = [call EXCEPT ![p].pc = "name"]
  /\ bin' = bin
  /\ UNCHANGED <<dialect, files, ncalls, pure, env, last_write>>

\* The root is resolved and the installation directory ensured.
ResolveRoot(p) ==
  /\ Active(p)
  /\ call[p].pc = "root"
  /\ LET r == RootOf(call[p].req.root, env) IN
       \/ /\ r.error # None
          /\ call' = [call EXCEPT ![p] = Abort(@, Unwrap(r.error))]
          /\ bin' = bin
       \/ /\ r.error = None
          /\ bin = "file"
          /\ call' = [call EXCEPT ![p] = Abort(@, "NotADirectory")]
          /\ bin' = bin
       \/ /\ r.error = None
          /\ bin = "dir"
          /\ call' = [call EXCEPT ![p].pc = "name"]
          /\ bin' = bin
       \/ /\ r.error = None
          /\ bin = "missing"
          /\ \/ /\ bin' = "dir"
                /\ call' = [call EXCEPT ![p].pc = "name"]
             \/ /\ bin' = bin
                /\ call' = [call EXCEPT ![p] = Abort(@, "CreateDirIo")]
  /\ UNCHANGED <<dialect, files, ncalls, pure, env, last_write>>

ResolveNameIgnoringForce(p) ==
  /\ Active(p)
  /\ call[p].pc = "name"
  /\ LET c == call[p]
         r == ResolveNameOf(c.req.name, c.req.module_url)
     IN call' = [call EXCEPT ![p] =
          IF ~c.req.module_url.resolves THEN Abort(c, "UrlResolution")
          ELSE IF r.error # None THEN Abort(c, Unwrap(r.error))
          ELSE [c EXCEPT !.pc = "args", !.name = r.name,
                         !.file_path = Some(LauncherPath(Unwrap(r.name)))]]
  /\ UNCHANGED <<dialect, bin, files, ncalls, pure, env, last_write>>

ResolveNameChecksBarePath(p) ==
  /\ Active(p)
  /\ call[p].pc = "name"
  /\ LET c == call[p]
         r == ResolveNameOf(c.req.name, c.req.module_url)
     IN call' = [call EXCEPT ![p] =
          IF ~c.req.module_url.resolves THEN Abort(c, "UrlResolution")
          ELSE IF r.error # None THEN Abort(c, Unwrap(r.error))
          ELSE IF Exists(Unwrap(r.name)) /\ ~c.req.force
            THEN Abort(c, "AlreadyExists")
          ELSE [c EXCEPT !.pc = "args", !.name = r.name,
                         !.file_path = Some(LauncherPath(Unwrap(r.name)))]]
  /\ UNCHANGED <<dialect, bin, files, ncalls, pure, env, last_write>>

ResolveNameAfterCreate(p) ==
  /\ Active(p)
  /\ call[p].pc = "name"
  /\ LET c == call[p]
         n == IF c.req.name # None THEN c.req.name
              ELSE infer_name_from_url(c.req.module_url.path)
         r == ResolveNameOf(c.req.name, c.req.module_url)
     IN IF ~c.req.module_url.resolves
          THEN call' = [call EXCEPT ![p] = Abort(c, "UrlResolution")] /\ files' = files
        ELSE IF r.error # None
          THEN /\ call' = [call EXCEPT ![p] = Abort(c, Unwrap(r.error))]
               /\ files' = IF n # None /\ ~Exists(LauncherPath(Unwrap(n)))
                             THEN Created(files, LauncherPath(Unwrap(n)))
                             ELSE files
        ELSE IF Exists(LauncherPath(Unwrap(r.name))) /\ ~c.req.force
          THEN call' = [call EXCEPT ![p] = Abort(c, "AlreadyExists")] /\ files' = files
        ELSE /\ call' = [call EXCEPT ![p] =
                  [c EXCEPT !.pc = "args", !.name = r.name,
                            !.file_path = Some(LauncherPath(Unwrap(r.name)))]]
             /\ files' = files
  /\ UNCHANGED <<dialect, bin, ncalls, pure, env, last_write>>

ResolveNameLevelFirst(p) ==
  /\ Active(p)
  /\ call[p].pc = "name"
  /\ LET c == call[p]
         r == ResolveNameOf(c.req.name, c.req.module_url)
     IN call' = [call EXCEPT ![p] =
          IF ~c.req.module_url.resolves THEN Abort(c, "UrlResolution")
          ELSE IF r.error # None THEN Abort(c, Unwrap(r.error))
          ELSE IF SerializeError(c.req.flags) = Some("InvalidLogLevel")
            THEN Abort(c, "InvalidLogLevel")
          ELSE IF Exists(LauncherPath(Unwrap(r.name))) /\ ~c.req.force
            THEN Abort(c, "AlreadyExists")
          ELSE [c EXCEPT !.pc = "args", !.name = r.name,
                         !.file_path = Some(LauncherPath(Unwrap(r.name)))]]
  /\ UNCHANGED <<dialect, bin, files, ncalls, pure, env, last_write>>

\* The module reference is resolved, the name resolved and validated and
\* the launcher path checked for an existing installation.
ResolveName(p) ==
  /\ Active(p)
  /\ call[p].pc = "name"
  /\ LET c == call[p]
         r == ResolveNameOf(c.req.name, c.req.module_url)
     IN call' = [call EXCEPT ![p] =
          IF ~c.req.module_url.resolves THEN Abort(c, "UrlResolution")
          ELSE IF r.error # None THEN Abort(c, Unwrap(r.error))
          ELSE IF Exists(LauncherPath(Unwrap(r.name))) /\ ~c.req.force
            THEN Abort(c, "AlreadyExists")
          ELSE [c EXCEPT !.pc = "args", !.name = r.name,
                         !.file_path = Some(LauncherPath(Unwrap(r.name)))]]
  /\ UNCHANGED <<dialect, bin, files, ncalls, pure, env, last_write>>

SerializeArgsCopyingEagerly(p) ==
  /\ Active(p)
  /\ call[p].pc = "args"
  /\ LET c == call[p]
         fp == Unwrap(c.file_path)
         config == IF c.req.flags.config_path = None THEN None
                   ELSE read_to_string(Unwrap(c.req.flags.config_path))
         err == SerializeError(c.req.flags)
     IN /\ call' = [call EXCEPT ![p] =
             IF err # None THEN Abort(c, Unwrap(err))
             ELSE [c EXCEPT !.pc = "create",
                     !.executable_args =
                        ExecutableArgs(c.req.flags, c.req.module_url, c.req.args, fp),
                     !.extra_files = ExtraFiles(c.req.flags, fp)]]
        /\ files' = IF config # None
                      THEN [Created(files, set_extension(fp, TSCONFIG_EXT))
                              EXCEPT ![set_extension(fp, TSCONFIG_EXT)].content = Unwrap(config)]
                      ELSE files
  /\ UNCHANGED <<dialect, bin, ncalls, pure, env, last_write>>

SerializeArgsDefaultingLevel(p) ==
  /\ Active(p)
  /\ call[p].pc = "args"
  /\ LET c == call[p]
         fp == Unwrap(c.file_path)
         flags == IF c.req.flags.log_level # None
                       /\ Unwrap(c.req.flags.log_level) \notin {"Error", "Debug", "Info"}
                    THEN [c.req.flags EXCEPT !.log_level = Some("Info")]
                    ELSE c.req.flags
         err == SerializeError(flags)
     IN call' = [call EXCEPT ![p] =
          IF err # None THEN Abort(c, Unwrap(err))
          ELSE [c EXCEPT !.pc = "create",
                  !.executable_args =
                     ExecutableArgs(flags, c.req.module_url, c.req.args, fp),
                  !.extra_files = ExtraFiles(flags, fp)]]
  /\ UNCHANGED <<dialect, bin, files, ncalls, pure, env, last_write>>

\* executable_args and extra_files are built; the config and the lock
\* source are read.
SerializeArgs(p) ==
  /\ Active(p)
  /\ call[p].pc = "args"
  /\ LET c == call[p]
         fp == Unwrap(c.file_path)
         err == SerializeError(c.req.flags)
     IN call' = [call EXCEPT ![p] =
          IF err # None THEN Abort(c, Unwrap(err))
          ELSE [c EXCEPT !.pc = "create",
                  !.executable_args =
                     ExecutableArgs(c.req.flags, c.req.module_url, c.req.args, fp),
                  !.extra_files = ExtraFiles(c.req.flags, fp)]]
  /\ UNCHANGED <<dialect, bin, files, ncalls, pure, env, last_write>>

CreateLauncherKeepingBackup(p) ==
  /\ Active(p)
  /\ call[p].pc = "create"
  /\ LET fp == Unwrap(call[p].file_path) IN
       \/ /\ files' = Created(IF Exists(fp)
                                THEN Put(files, fp \o <<".","b","a","k">>, files[fp])
                                ELSE files, fp)
          /\ last_write' = Put(last_write, fp, p)
          /\ call' = [call EXCEPT ![p].pc = "write",
                                  ![p].touched = @ \cup {fp}]
       \/ /\ files' = files
          /\ last_write' = last_write
          /\ call' = [call EXCEPT ![p] = Abort(@, "EmitIo")]
  /\ UNCHANGED <<dialect, bin, ncalls, pure, env>>

\* generate_executable_file: File::create(&file_path)
CreateLauncher(p) ==
  /\ Active(p)
  /\ call[p].pc = "create"
  /\ LET fp == Unwrap(call[p].file_path) IN
       \/ /\ files' = Created(files, fp)
          /\ last_write' = Put(last_write, fp, p)
          /\ call' = [call EXCEPT ![p].pc = "write",
                                  ![p].touched = @ \cup {fp}]
       \/ /\ files' = files
          /\ last_write' = last_write
          /\ call' = [call EXCEPT ![p] = Abort(@, "EmitIo")]
  /\ UNCHANGED <<dialect, bin, ncalls, pure, env>>

\* The text generate_executable_file writes to file_path.
LauncherText(args) ==
  IF dialect = "windows" THEN CmdScript(args) ELSE PosixScript(args)

\* generate_executable_file: file.write_all(template.as_bytes())
WriteLauncher(p) ==
  /\ Active(p)
  /\ call[p].pc = "write"
  /\ LET fp == Unwrap(call[p].file_path)
         text == LauncherText(call[p].executable_args)
     IN \/ /\ files' = [files EXCEPT ![fp].content = Overlay(text, @)]
           /\ call' = [call EXCEPT ![p].pc =
                         IF dialect = "windows" THEN "create2" ELSE "chmod"]
        \/ /\ \E part \in Partial(text) :
                files' = [files EXCEPT ![fp].content = Overlay(part, @)]
           /\ call' = [call EXCEPT ![p] = Abort(@, "EmitIo")]
  /\ last_write' = Put(last_write, Unwrap(call[p].file_path), p)
  /\ UNCHANGED <<dialect, bin, ncalls, pure, env>>

\* generate_executable_file (not windows): fs::metadata, set_mode(0o755),
\* fs::set_permissions
SetPermissions(p) ==
  /\ Active(p)
  /\ call[p].pc = "chmod"
  /\ dialect = "posix"
  /\ LET fp == Unwrap(call[p].file_path) IN
       \/ /\ files' = [files EXCEPT ![fp].mode = MODE_EXEC]
          /\ call' = [call EXCEPT ![p].pc = "extra"]
       \/ /\ files' = files
          /\ call' = [call EXCEPT ![p] = Abort(@, "EmitIo")]
  /\ UNCHANGED <<dialect, bin, ncalls, pure, env, last_write>>

\* generate_executable_file (windows): file_path.set_extension("") and the
\* second File::create
CreateCompanion(p) ==
  /\ Active(p)
  /\ call[p].pc = "create2"
  /\ dialect = "windows"
  /\ LET fp == set_extension(Unwrap(call[p].file_path), <<>>) IN
       \/ /\ files' = Created(files, fp)
          /\ last_write' = Put(last_write, fp, p)
          /\ call' = [call EXCEPT ![p].pc = "write2",
                                  ![p].touched = @ \cup {fp}]
       \/ /\ files' = files
          /\ last_write' = last_write
          /\ call' = [call EXCEPT ![p] = Abort(@, "EmitIo")]
  /\ UNCHANGED <<dialect, bin, ncalls, pure, env>>

\* generate_executable_file (windows): the second write_all
WriteCompanion(p) ==
  /\ Active(p)
  /\ call[p].pc = "write2"
  /\ dialect = "windows"
  /\ LET fp == set_extension(Unwrap(call[p].file_path), <<>>)
         text == CompanionScript(call[p].executable_args)
     IN /\ \/ /\ files' = [files EXCEPT ![fp].content = Overlay(text, @)]
              /\ call' = [call EXCEPT ![p].pc = "extra"]
           \/ /\ \E part \in Partial(text) :
                   files' = [files EXCEPT ![fp].content = Overlay(part, @)]
              /\ call' = [call EXCEPT ![p] = Abort(@, "EmitIo")]
        /\ last_write' = Put(last_write, fp, p)
  /\ UNCHANGED <<dialect, bin, ncalls, pure, env>>

CreateExtraSkipsExisting(p) ==
  /\ Active(p)
  /\ call[p].pc = "extra"
  /\ call[p].next_extra <= Len(call[p].extra_files)
  /\ LET path == call[p].extra_files[call[p].next_extra][1] IN
       IF Exists(path)
         THEN /\ files' = files
              /\ last_write' = last_write
              /\ call' = [call EXCEPT ![p].next_extra = @ + 1]
         ELSE \/ /\ files' = Created(files, path)
                 /\ last_write' = Put(last_write, path, p)
                 /\ call' = [call EXCEPT ![p].pc = "extra_write",
                                         ![p].touched = @ \cup {path}]
              \/ /\ files' = files
                 /\ last_write' = last_write
                 /\ call' = [call EXCEPT ![p] = Abort(@, "ExtraWriteIo")]
  /\ UNCHANGED <<dialect, bin, ncalls, pure, env>>

\* One round of `for (path, contents) in extra_files`, fs::write: the
\* File::create in it, which creates or truncates the file.
CreateExtra(p) ==
  /\ Active(p)
  /\ call[p].pc = "extra"
  /\ call[p].next_extra <= Len(call[p].extra_files)
  /\ LET path == call[p].extra_files[call[p].next_extra][1] IN
       \/ /\ files' = Created(files, path)
          /\ last_write' = Put(last_write, path, p)
          /\ call' = [call EXCEPT ![p].pc = "extra_write",
                                  ![p].touched = @ \cup {path}]
       \/ /\ files' = files
          /\ last_write' = last_write
          /\ call' = [call EXCEPT ![p] = Abort(@, "ExtraWriteIo")]
  /\ UNCHANGED <<dialect, bin, ncalls, pure, env>>

\* fs::write: the write_all in it.
WriteExtra(p) ==
  /\ Active(p)
  /\ call[p].pc = "extra_write"
  /\ LET path == call[p].extra_files[call[p].next_extra][1]
         contents == call[p].extra_files[call[p].next_extra][2]
     IN /\ \/ /\ files' = [files EXCEPT ![path].content = Overlay(contents, @)]
              /\ call' = [call EXCEPT ![p].pc = "extra", ![p].next_extra = @ + 1]
           \/ /\ \E part \in Partial(contents) :
                   files' = [files EXCEPT ![path].content = Overlay(part, @)]
              /\ call' = [call EXCEPT ![p] = Abort(@, "ExtraWriteIo")]
        /\ last_write' = Put(last_write, path, p)
  /\ UNCHANGED <<dialect, bin, ncalls, pure, env>>

\* The loop is over: the success report and Ok(()).
Finish(p) ==
  /\ Active(p)
  /\ call[p].pc = "extra"
  /\ call[p].next_extra > Len(call[p].extra_files)
  /\ call' = [call EXCEPT ![p].pc = "returned", ![p].result = Some("Ok")]
  /\ UNCHANGED <<dialect, bin, files, ncalls, pure, env, last_write>>

NoPure == [op |-> "none", in |-> <<>>, done |-> TRUE, out |-> <<>>]

\* The tests' set-up: a root directory, its bin made beforehand or not,
\* and one process calling install.
Init ==
  /\ dialect \in {"posix", "windows"}
  /\ bin \in {"missing", "dir", "file"}
  /\ files = <<>>
  /\ call = [p \in {1} |-> Idle]
  /\ ncalls = 0
  /\ pure = NoPure
  /\ env = TestEnv
  /\ last_write = <<>>

Next ==
  \E p \in Procs :
    \/ Call(p)
    \/ ResolveRoot(p)
    \/ ResolveName(p)
    \/ SerializeArgs(p)
    \/ CreateLauncher(p)
    \/ WriteLauncher(p)
    \/ SetPermissions(p)
    \/ CreateCompanion(p)
    \/ WriteCompanion(p)
    \/ CreateExtra(p)
    \/ WriteExtra(p)
    \/ Finish(p)

Spec == Init /\ [][Next]_vars

(***************************************************************************)
(* NameResolver on its own: infer_name_from_url and the name resolution    *)
(* of install applied to URL paths and supplied names                      *)
(***************************************************************************)
MaxSegs == 3

\* The path segments a URL is built of; the URL parser leaves no "." and
\* no ".." segment in a path.
Segments ==
  { <<>>,
    <<"m","a","i","n",".","t","s">>,
    <<"m","o","d",".","t","s">>,
    <<"i","n","d","e","x",".","j","s">>,
    <<"c","l","i">>,
    <<"a","b","c">>,
    <<"a","b","c","@","0",".","1",".","0">>,
    <<"a","b","c","@","d","e","f","@","g","h","i">>,
    <<"s","e","r","v","e","r",".","t","s">> }

SuppliedNames ==
  { None,
    Some(<<"a","b","c">>),
    Some(<<"a","b","c","@","1">>),
    Some(<<"9","a">>) }

RECURSIVE SeqsUpTo(_, _)
\* The sequences over S of length at most n.
SeqsUpTo(S, n) ==
  IF n = 0 THEN { <<>> }
  ELSE LET shorter == SeqsUpTo(S, n - 1) IN
         shorter \cup { Append(q, x) : q \in { r \in shorter : Len(r) = n - 1 }, x \in S }

\* Url::path: "/" and the segments with "/" between them.
UrlPath(in) ==
  <<"/">> \o JoinWith(in.segs, <<"/">>) \o (IF in.trailing THEN <<"/">> ELSE <<>>)

InitName ==
  /\ dialect = "posix"
  /\ bin = "dir"
  /\ files = <<>>
  /\ call = <<>>
  /\ ncalls = 0
  /\ env = NoEnv
  /\ last_write = <<>>
  /\ \E op \in {"infer", "resolve"}, segs \in SeqsUpTo(Segments, MaxSegs),
        trailing \in BOOLEAN, name \in SuppliedNames :
       /\ op = "infer" => name = None
       /\ pure = [ op |-> op,
                   in |-> [segs |-> segs, trailing |-> trailing, name |-> name],
                   done |-> FALSE, out |-> <<>> ]

\* infer_name_from_url(&url)
ApplyInfer ==
  /\ pure.op = "infer"
  /\ ~pure.done
  /\ pure' = [pure EXCEPT !.done = TRUE,
                          !.out = infer_name_from_url(UrlPath(pure.in))]
  /\ UNCHANGED <<dialect, bin, files, call, ncalls, env, last_write>>

\* The name resolution of install, for a supplied name and a module URL.
ApplyResolveName ==
  /\ pure.op = "resolve"
  /\ ~pure.done
  /\ pure' = [pure EXCEPT !.done = TRUE,
                          !.out = ResolveNameOf(pure.in.name, [path |-> UrlPath(pure.in)])]
  /\ UNCHANGED <<dialect, bin, files, call, ncalls, env, last_write>>

NextName == ApplyInfer \/ ApplyResolveName

SpecName == InitName /\ [][NextName]_vars

(***************************************************************************)
(* Name inference, in the terms of the URL: its non-empty path segments    *)
(***************************************************************************)
InferDone == pure.op = "infer" /\ pure.done

ResolveDone == pure.op = "resolve" /\ pure.done

PathSegments == SelectSeq(pure.in.segs, LAMBDA seg : seg # <<>>)

\* A segment without its extension: what precedes its last dot, when that
\* dot is not its first character.
MinusExtension(seg) ==
  LET dots == { i \in 2..Len(seg) : seg[i] = "." } IN
    IF dots = {} THEN seg
    ELSE SubSeq(seg, 1, (CHOOSE i \in dots : \A j \in dots : j <= i) - 1)

HasAt(s) == \E i \in 1..Len(s) : s[i] = "@"

\* t is s cut at its first '@' (s itself without one).
IsCutAtFirstAt(t, s) ==
  /\ ~HasAt(t)
  /\ IF HasAt(s) THEN IsPrefix(t \o <<"@">>, s) ELSE t = s

LastStem == MinusExtension(PathSegments[Len(PathSegments)])

\* C9 as stated: a reserved stem gives the parent directory's name, any
\* other URL gives the stem, an empty path gives no name.
C9_AsStated ==
  InferDone =>
    IF PathSegments = <<>> THEN pure.out = None
    ELSE IF LastStem \in ReservedStems
      THEN /\ Len(PathSegments) >= 2
           /\ pure.out = Some(PathSegments[Len(PathSegments) - 1])
    ELSE pure.out = Some(LastStem)

\* C9, amended: a URL without a non-empty path segment infers no name;
\* otherwise the inferred name is, cut at its first '@', the name of the
\* parent directory when the last segment's stem is main, mod, index or cli
\* and there is a parent directory, and that stem in every other case.
C9_InferRule ==
  InferDone =>
    IF PathSegments = <<>> THEN pure.out = None
    ELSE /\ pure.out # None
         /\ IsCutAtFirstAt(Unwrap(pure.out),
              IF LastStem \in ReservedStems /\ Len(PathSegments) >= 2
                THEN PathSegments[Len(PathSegments) - 1]
                ELSE LastStem)

\* A reserved stem under a parent directory versioned with '@':
\* https://example.com/abc@0.1.0/main.ts gives abc.
C9_Witness ==
  /\ InferDone
  /\ PathSegments = << <<"a","b","c","@","0",".","1",".","0">>,
                       <<"m","a","i","n",".","t","s">> >>
  /\ pure.out = Some(<<"a","b","c">>)

\* The name install goes on with, before validation: the supplied one, or
\* the stem or parent name the URL gives.
ChosenRaw ==
  IF pure.in.name # None THEN Unwrap(pure.in.name)
  ELSE InferStem(UrlPath(pure.in))

\* C10 as stated: a name with an '@', inferred or supplied, results in the
\* executable name before the first '@'.
C10_AsStated ==
  (/\ ResolveDone
   /\ pure.in.name # None \/ PathSegments # <<>>
   /\ HasAt(ChosenRaw))
    => /\ pure.out.name # None
       /\ IsCutAtFirstAt(Unwrap(pure.out.name), ChosenRaw)

\* C10, amended: an inferred name with an '@' results in the part before
\* its first '@', which is the name validated; a supplied name with an '@'
\* is not cut: it fails validation as it is and install aborts with the
\* invalid-name error.
C10_AtRule ==
  ResolveDone =>
    /\ (pure.in.name = None /\ PathSegments # <<>> /\ HasAt(ChosenRaw)) =>
         /\ pure.out.name # None
         /\ IsCutAtFirstAt(Unwrap(pure.out.name), ChosenRaw)
    /\ (pure.in.name # None /\ HasAt(ChosenRaw)) =>
         pure.out = [error |-> Some("InvalidName"), name |-> pure.in.name]

\* Both cases happen: abc@0.1.0 inferred gives abc, abc@1 supplied aborts.
C10_Witness ==
  /\ ResolveDone
  /\ \/ /\ pure.in.name = None
        /\ PathSegments = << <<"a","b","c","@","0",".","1",".","0">> >>
        /\ pure.out = [error |-> None, name |-> Some(<<"a","b","c">>)]
     \/ /\ pure.in.name = Some(<<"a","b","c","@","1">>)
        /\ pure.out.error = Some("InvalidName")

(***************************************************************************)
(* ArgumentSerializer on its own: the serialization of install applied to  *)
(* configurations with up to MaxFlagsSet flags set                         *)
(***************************************************************************)
MaxFlagsSet == 4

FlagNames ==
  { "allow_read", "allow_net", "location", "ca_file", "log_level", "no_check",
    "unstable", "no_remote", "lock_write", "cached_only", "v8_flags", "seed",
    "inspect", "inspect_brk", "import_map_path", "config_path", "lock" }

\* The configuration with the flags of S set, log_level to level.
FlagsWith(S, level) ==
  [ allow_read |-> "allow_read" \in S,
    allow_net |-> "allow_net" \in S,
    location |-> IF "location" \in S
                   THEN Some(<<"https", ":", "//example.com/">>) ELSE None,
    ca_file |-> IF "ca_file" \in S THEN Some(<<"/tmp/ca.pem">>) ELSE None,
    log_level |-> IF "log_level" \in S THEN Some(level) ELSE None,
    no_check |-> "no_check" \in S,
    unstable |-> "unstable" \in S,
    no_remote |-> "no_remote" \in S,
    lock_write |-> "lock_write" \in S,
    cached_only |-> "cached_only" \in S,
    v8_flags |-> IF "v8_flags" \in S THEN <<"--help", "--random-seed=1">> ELSE <<>>,
    seed |-> IF "seed" \in S THEN Some(1) ELSE None,
    inspect |-> IF "inspect" \in S THEN Some(<<"127.0.0.1", ":", "9229">>) ELSE None,
    inspect_brk |-> IF "inspect_brk" \in S
                      THEN Some(<<"127.0.0.1", ":", "9229">>) ELSE None,
    import_map_path |-> IF "import_map_path" \in S THEN Some(ImportMap) ELSE None,
    config_path |-> IF "config_path" \in S THEN Some("test_tsconfig.json") ELSE None,
    lock |-> IF "lock" \in S THEN Some("lock.json") ELSE None ]

PassthroughChoices == { <<>>, <<Tok("--foobar")>>, <<Tok("--quiet"), <<"a", " ", "b">> >> }

InitArgs ==
  /\ dialect = "posix"
  /\ bin = "dir"
  /\ files = <<>>
  /\ call = <<>>
  /\ ncalls = 0
  /\ env = NoEnv
  /\ last_write = <<>>
  /\ \E S \in { T \in SUBSET FlagNames : Cardinality(T) <= MaxFlagsSet },
        level \in Levels, module_url \in {ModEcho, ModCat},
        args \in PassthroughChoices :
       /\ "log_level" \notin S => level = "Error"
       /\ pure = [ op |-> "serialize",
                   in |-> [set |-> S, flags |-> FlagsWith(S, level),
                           module_url |-> module_url, args |-> args],
                   done |-> FALSE, out |-> <<>> ]

\* The serialization of install for the launcher path bin/echo_test.
ApplySerialize ==
  /\ pure.op = "serialize"
  /\ ~pure.done
  /\ pure' = [pure EXCEPT !.done = TRUE,
       !.out = [ error |-> SerializeError(pure.in.flags),
                 executable_args |->
                   IF SerializeError(pure.in.flags) # None THEN <<>>
                   ELSE ExecutableArgs(pure.in.flags, pure.in.module_url,
                                       pure.in.args, ECHO_TEST) ]]
  /\ UNCHANGED <<dialect, bin, files, call, ncalls, env, last_write>>

NextArgs == ApplySerialize

SpecArgs == InitArgs /\ [][NextArgs]_vars

(***************************************************************************)
(* The order of the serialized tokens                                      *)
(***************************************************************************)
SerializeDone == pure.op = "serialize" /\ pure.done

\* The documented position of each flag, by the flag token's first piece;
\* 0 for a token that is a flag's value.
FlagPosition(tok) ==
  LET head == IF tok = <<>> THEN "" ELSE tok[1] IN
    CASE head = "run" -> 1
      [] head \in {"--allow-read", "--allow-net"} -> 2
      [] head = "--location" -> 3
      [] head = "--cert" -> 4
      [] head \in {"--quiet", "--log-level"} -> 5
      [] head = "--no-check" -> 6
      [] head = "--unstable" -> 7
      [] head = "--no-remote" -> 8
      [] head = "--lock-write" -> 9
      [] head = "--cached-only" -> 10
      [] head = "--v8-flags=--help,--random-seed=1" -> 11
      [] head = "--seed" -> 12
      [] head = "--inspect=" -> 13
      [] head = "--inspect-brk=" -> 14
      [] head = "--import-map" -> 15
      [] head = "--config" -> 16
      [] head = "--lock" -> 17
      [] OTHER -> 0

\* The documented position of each flag of the configuration.
PositionOfFlag(flag) ==
  CASE flag \in {"allow_read", "allow_net"} -> 2
    [] flag = "location" -> 3
    [] flag = "ca_file" -> 4
    [] flag = "log_level" -> 5
    [] flag = "no_check" -> 6
    [] flag = "unstable" -> 7
    [] flag = "no_remote" -> 8
    [] flag = "lock_write" -> 9
    [] flag = "cached_only" -> 10
    [] flag = "v8_flags" -> 11
    [] flag = "seed" -> 12
    [] flag = "inspect" -> 13
    [] flag = "inspect_brk" -> 14
    [] flag = "import_map_path" -> 15
    [] flag = "config_path" -> 16
    [] flag = "lock" -> 17

\* C6: the vector is "run", then the tokens of the flags that are set, in
\* the documented order (permissions, location, cert, log level, no-check,
\* unstable, no-remote, lock-write, cached-only, v8 flags, seed, inspect,
\* inspect-brk, import-map, config, lock), then the module URL, then the
\* passthrough arguments as supplied; the flags of the test give exactly
\* run --allow-read --allow-net --quiet --no-check <url> <passthrough>.
C6_TokenOrder ==
  (SerializeDone /\ pure.out.error = None) =>
    LET a == pure.out.executable_args
        n == Len(a) - Len(pure.in.args) - 1
    IN /\ n >= 1
       /\ a[1] = <<"run">>
       /\ a[n + 1] = pure.in.module_url.url
       /\ SubSeq(a, n + 2, Len(a)) = pure.in.args
       /\ \A i, j \in 1..n :
            (i < j /\ FlagPosition(a[i]) # 0 /\ FlagPosition(a[j]) # 0)
              => /\ FlagPosition(a[i]) <= FlagPosition(a[j])
                 /\ a[i] # a[j]
       /\ \A flag \in pure.in.set :
            \E i \in 2..n : FlagPosition(a[i]) = PositionOfFlag(flag)
       /\ \A i \in 2..n :
            FlagPosition(a[i]) # 0
              => \E flag \in pure.in.set : FlagPosition(a[i]) = PositionOfFlag(flag)
       /\ (/\ pure.in.set = {"allow_read", "allow_net", "log_level", "no_check"}
           /\ pure.in.flags.log_level = Some("Error")
           /\ pure.in.module_url = ModEcho)
            => a = << <<"run">>, <<"--allow-read">>, <<"--allow-net">>, <<"--quiet">>,
                      <<"--no-check">>,
                      <<"http", ":", "//localhost", ":", "4545/echo_server.ts">> >>
                   \o pure.in.args

\* The test install_with_flags: its flags, its module and --foobar.
C6_Witness ==
  /\ SerializeDone
  /\ pure.in.set = {"allow_read", "allow_net", "log_level", "no_check"}
  /\ pure.in.flags.log_level = Some("Error")
  /\ pure.in.module_url = ModEcho
  /\ pure.in.args = << <<"--foobar">> >>
  /\ Len(pure.out.executable_args) = 7

(***************************************************************************)
(* The install call and the files of the installation directory            *)
(***************************************************************************)
Returned(p) == Active(p) /\ call[p].pc = "returned"

InCall(p) == Active(p) /\ call[p].pc # "idle"

\* The name the call's request resolves to: None unless the root and the
\* module reference resolve and the name, supplied or inferred, is valid.
RequestName(p) ==
  LET req == call[p].req
      r == ResolveNameOf(req.name, req.module_url)
  IN IF RootOf(req.root, env).error = None /\ req.module_url.resolves /\ r.error = None
       THEN r.name ELSE None

\* The files of the installation of a name.
LauncherOf(name) == IF dialect = "windows" THEN name \o <<".","c","m","d">> ELSE name

ConfigCopyOf(name) == name \o <<".">> \o TSCONFIG_EXT

LockCopyOf(name) == name \o <<".">> \o LOCK_EXT

InstallationOf(name) ==
  { name, name \o <<".","c","m","d">>, ConfigCopyOf(name), LockCopyOf(name) }

\* The launcher of the request's name was there when the call began.
LauncherWasThere(p) ==
  /\ RequestName(p) # None
  /\ LauncherOf(Unwrap(RequestName(p))) \in DOMAIN call[p].pre

\* C1: a call without force whose resolved name has a launcher already
\* changes no file at any point and returns the existing-installation error.
C1_ExistingKept ==
  \A p \in Procs :
    (InCall(p) /\ ~call[p].req.force /\ LauncherWasThere(p)) =>
      /\ files = call[p].pre
      /\ bin = call[p].preBin
      /\ call[p].pc = "returned" => call[p].result = Some("AlreadyExists")

\* The test install_force: echo_test is installed for echo_server.ts and
\* the call without force for cat.ts is refused.
C1_Witness ==
  \E p \in Procs :
    /\ Returned(p)
    /\ ~call[p].req.force
    /\ call[p].req.module_url = ModCat
    /\ call[p].req.name = Some(ECHO_TEST)
    /\ LauncherWasThere(p)
    /\ call[p].result = Some("AlreadyExists")
    /\ call[p].pre[LauncherOf(ECHO_TEST)].content =
         LauncherText(ExecutableArgs(DefaultFlags, ModEcho, <<>>, LauncherOf(ECHO_TEST)))

\* C2: in a call without force, every file of the installation of the
\* call's name that was there when the call began is there unchanged.
C2_NoClobber ==
  \A p \in Procs :
    (InCall(p) /\ ~call[p].req.force /\ RequestName(p) # None) =>
      \A f \in InstallationOf(Unwrap(RequestName(p))) \cap DOMAIN call[p].pre :
        f \in DOMAIN files /\ files[f] = call[p].pre[f]

\* A call without force that names a config and a lock file, made over an
\* installation with its companion script and both copies, has returned.
C2_Witness ==
  \E p \in Procs :
    /\ Returned(p)
    /\ ~call[p].req.force
    /\ RequestName(p) # None
    /\ dialect = "windows"
    /\ InstallationOf(Unwrap(RequestName(p))) \subseteq DOMAIN call[p].pre
    /\ call[p].req.flags.config_path # None
    /\ call[p].req.flags.lock # None
    /\ call[p].req.module_url = ModCat
    /\ call[p].pre[LauncherOf(Unwrap(RequestName(p)))].content # CmdScript(
         ExecutableArgs(call[p].req.flags, ModCat, <<>>, LauncherOf(Unwrap(RequestName(p)))))

\* The copies the request asks for: <<file, source content>>.
CopiesAsked(p) ==
  LET flags == call[p].req.flags
      name == Unwrap(RequestName(p))
  IN (IF flags.config_path # None
        THEN { <<ConfigCopyOf(name), SourceFiles[Unwrap(flags.config_path)]>> } ELSE {})
     \cup
     (IF flags.lock # None
        THEN { <<LockCopyOf(name), SourceFiles[Unwrap(flags.lock)]>> } ELSE {})

\* The launcher holds the rendering of the request's argument vector.
LauncherIsNew(p) ==
  LET fp == LauncherOf(Unwrap(RequestName(p))) IN
    /\ fp \in DOMAIN files
    /\ files[fp].content =
         LauncherText(ExecutableArgs(call[p].req.flags, call[p].req.module_url,
                                     call[p].req.args, fp))

\* C3 as stated: with force over an existing launcher the call succeeds,
\* the launcher holds the rendering of the new argument vector and every
\* copy the previous installation staged has been written again.
C3_AsStated ==
  \A p \in Procs :
    (Returned(p) /\ call[p].req.force /\ LauncherWasThere(p)) =>
      /\ call[p].result = Some("Ok")
      /\ LauncherIsNew(p)
      /\ \A f \in { ConfigCopyOf(Unwrap(RequestName(p))),
                    LockCopyOf(Unwrap(RequestName(p))) } \cap DOMAIN call[p].pre :
           f \in call[p].touched

\* C3, amended: with force over an existing launcher the call is never
\* refused as an existing installation; when it succeeds, the launcher
\* holds the rendering of the new argument vector, each copy the new
\* request asks for has been written again with its source's content, and
\* a copy of the previous installation the new request does not ask for is
\* left as it was.
C3_ForceOverwrites ==
  \A p \in Procs :
    (Returned(p) /\ call[p].req.force /\ LauncherWasThere(p)) =>
      /\ call[p].result # Some("AlreadyExists")
      /\ call[p].result = Some("Ok") =>
           /\ LauncherIsNew(p)
           /\ LauncherOf(Unwrap(RequestName(p))) \in call[p].touched
           /\ \A copy \in CopiesAsked(p) :
                /\ copy[1] \in call[p].touched
                /\ copy[1] \in DOMAIN files
                /\ files[copy[1]].content = copy[2]
           /\ \A f \in ({ ConfigCopyOf(Unwrap(RequestName(p))),
                          LockCopyOf(Unwrap(RequestName(p))) } \cap DOMAIN call[p].pre)
                         \ { copy[1] : copy \in CopiesAsked(p) } :
                f \in DOMAIN files /\ files[f] = call[p].pre[f]

\* The test install_force, with copies: echo_test installed for
\* echo_server.ts is overwritten with force for cat.ts, and its config and
\* lock copies, there before, are written again.
C3_Witness ==
  \E p \in Procs :
    /\ Returned(p)
    /\ call[p].req.force
    /\ LauncherWasThere(p)
    /\ call[p].result = Some("Ok")
    /\ call[p].req.module_url = ModCat
    /\ call[p].req.flags.config_path # None
    /\ call[p].req.flags.lock # None
    /\ { ConfigCopyOf(ECHO_TEST), LockCopyOf(ECHO_TEST) } \subseteq DOMAIN call[p].pre
    /\ call[p].pre[LauncherOf(ECHO_TEST)].content =
         LauncherText(ExecutableArgs(call[p].req.flags, ModEcho, <<>>, LauncherOf(ECHO_TEST)))
    /\ files[LauncherOf(ECHO_TEST)].content # call[p].pre[LauncherOf(ECHO_TEST)].content

\* The request names a config or a lock source that cannot be read, and
\* nothing before the reads of the serialization fails.
ReadFails(p) ==
  SerializeError(call[p].req.flags) = Some("AuxiliaryFileRead")

\* C4: a call that gets to the serialization and cannot read its config or
\* its lock source writes no file at any point, the copy of a config that
\* was read included, and returns the read error.
C4_ReadFailureWritesNothing ==
  \A p \in Procs :
    /\ (InCall(p) /\ call[p].file_path # None /\ ReadFails(p)) =>
         /\ files = call[p].pre
         /\ call[p].touched = {}
         /\ call[p].pc \in {"args", "returned"}
         /\ call[p].pc = "returned" => call[p].result = Some("AuxiliaryFileRead")
    /\ (Returned(p) /\ call[p].result = Some("AuxiliaryFileRead")) =>
         /\ ReadFails(p)
         /\ files = call[p].pre

\* A forced call over an existing installation whose config source is read
\* and whose lock source cannot be read has returned the read error.
C4_Witness ==
  \E p \in Procs :
    /\ Returned(p)
    /\ call[p].result = Some("AuxiliaryFileRead")
    /\ call[p].req.force
    /\ LauncherWasThere(p)
    /\ call[p].req.flags.config_path = Some("test_tsconfig.json")
    /\ read_to_string("test_tsconfig.json") # None
    /\ call[p].req.flags.lock = Some("gone.json")

\* The files the active dialect requires for a launcher path.
RequiredFiles(fp) ==
  IF dialect = "windows" THEN { fp, set_extension(fp, <<>>) } ELSE { fp }

\* The text each required file is to hold.
RequiredText(fp, f, args) ==
  IF dialect = "posix" THEN PosixScript(args)
  ELSE IF f = fp THEN CmdScript(args) ELSE CompanionScript(args)

\* A file of the launcher written by this call that a shell can run as the
\* new launcher: complete, and executable where the dialect has modes.
UsableNew(p, f) ==
  /\ f \in call[p].touched
  /\ f \in DOMAIN files
  /\ files[f].content =
       RequiredText(Unwrap(call[p].file_path), f, call[p].executable_args)
  /\ dialect = "posix" => files[f].mode = MODE_EXEC

\* C5: when generate_executable_file has returned, either every file the
\* dialect requires is there, complete and with its permissions, or it
\* returned an error and no new launcher file is usable.
C5_AllOrNothing ==
  \A p \in Procs :
    /\ (Active(p) /\ call[p].pc = "extra") =>
         \A f \in RequiredFiles(Unwrap(call[p].file_path)) : UsableNew(p, f)
    /\ (Returned(p) /\ call[p].result = Some("EmitIo")) =>
         \A f \in RequiredFiles(Unwrap(call[p].file_path)) : ~UsableNew(p, f)

\* The errors of the stages before the serialization.
EarlierErrors ==
  { Some("RootIo"), Some("NotADirectory"), Some("CreateDirIo"),
    Some("UrlResolution"), Some("MissingName"), Some("InvalidName"),
    Some("AlreadyExists") }

UnrecognizedLevel(p) ==
  /\ call[p].req.flags.log_level # None
  /\ Unwrap(call[p].req.flags.log_level) \notin {"Error", "Debug", "Info"}

\* C7: a call with an unrecognized log level never succeeds and never gets
\* to writing a file; once it is past the conflict check, where the level
\* is looked at, it fails with the invalid-log-level error, and before that
\* only with the error of a stage that comes first.
C7_InvalidLevelFails ==
  \A p \in Procs :
    (InCall(p) /\ UnrecognizedLevel(p)) =>
      /\ files = call[p].pre
      /\ call[p].pc \in {"root", "name", "args", "returned"}
      /\ call[p].pc = "returned" =>
           /\ call[p].result \in EarlierErrors \cup { Some("InvalidLogLevel") }
           /\ call[p].file_path # None <=> call[p].result = Some("InvalidLogLevel")

\* A forced call with the level Warn over an existing installation has
\* passed the conflict check and returned the invalid-log-level error.
C7_Witness ==
  \E p \in Procs :
    /\ Returned(p)
    /\ call[p].req.flags.log_level = Some("Warn")
    /\ call[p].req.force
    /\ LauncherWasThere(p)
    /\ call[p].result = Some("InvalidLogLevel")

\* C8: a call that ends with the missing-name or the invalid-name error has
\* created or changed no regular file.
C8_NameErrorsTouchNoFile ==
  \A p \in Procs :
    (Returned(p) /\ call[p].result \in { Some("MissingName"), Some("InvalidName") }) =>
      /\ files = call[p].pre
      /\ call[p].touched = {}

\* A call with the supplied name abc@1 has made the missing bin directory
\* and returned the invalid-name error.
C8_Witness ==
  \E p \in Procs :
    /\ Returned(p)
    /\ call[p].result = Some("InvalidName")
    /\ call[p].req.name = Some(<<"a","b","c","@","1">>)
    /\ call[p].preBin = "missing"
    /\ bin = "dir"
    /\ files = <<>>

(***************************************************************************)
(* validate_name on its own: applied to the strings of up to MaxNameLen    *)
(* characters, and the name resolution of install applied to them as the   *)
(* supplied name                                                           *)
(***************************************************************************)
MaxNameLen == 3

\* The characters the names are built of: letters in both cases, a digit,
\* underscore, hyphen, characters the expression has no place for, and
\* characters beyond ASCII.
NameChars ==
  { "a", "Z", "7", "_", "-", " ", "/", "@", ".", "\n",
    "U+212A", "U+203F", "U+200D" }

InitValidate ==
  /\ dialect = "posix"
  /\ bin = "dir"
  /\ files = <<>>
  /\ call = <<>>
  /\ ncalls = 0
  /\ env = NoEnv
  /\ last_write = <<>>
  /\ \E name \in SeqsUpTo(NameChars, MaxNameLen) :
       pure = [ op |-> "validate", in |-> name, done |-> FALSE, out |-> <<>> ]

\* validate_name(name.as_str()), and install up to it for Some(name)
ApplyValidate ==
  /\ pure.op = "validate"
  /\ ~pure.done
  /\ pure' = [pure EXCEPT !.done = TRUE,
                          !.out = [ valid |-> validate_name(pure.in),
                                    install |-> ResolveNameOf(Some(pure.in), ModEcho) ]]
  /\ UNCHANGED <<dialect, bin, files, call, ncalls, env, last_write>>

NextValidate == ApplyValidate

SpecValidate == InitValidate /\ [][NextValidate]_vars

(***************************************************************************)
(* The names validate_name accepts                                         *)
(***************************************************************************)
ValidateDone == pure.op = "validate" /\ pure.done

\* The letters, in the widest reading: those of ASCII and those beyond.
Letters == Lower \cup Upper \cup {"U+017F", "U+212A", "U+00E9"}

\* The digits, in the widest reading.
Digits == Digit \cup {"U+0661"}

\* The install call ends with the invalid-name error for the name.
AbortsInvalid ==
  pure.out.install = [error |-> Some("InvalidName"), name |-> Some(pure.in)]

RootChoices == { None, Some(ROOT_DIR), Some(LINK_DIR), Some(MISSING_DIR) }

EnvChoices ==
  [ DENO_INSTALL_ROOT : { None, Some(""), Some(ROOT_DIR), Some(LINK_DIR),
                          Some(MISSING_DIR) },
    HOME : { None, Some("/home/u") },
    USERPROFILE : { None, Some("C:/Users/u") } ]

InitRoot ==
  /\ dialect \in {"posix", "windows"}
  /\ bin = "dir"
  /\ files = <<>>
  /\ call = <<>>
  /\ ncalls = 0
  /\ env \in EnvChoices
  /\ last_write = <<>>
  /\ \E root \in RootChoices :
       pure = [ op |-> "root", in |-> [root |-> root, name |-> ECHO_TEST],
                done |-> FALSE, out |-> <<>> ]

\* install, from `let root` to file_path
ApplyRoot ==
  /\ pure.op = "root"
  /\ ~pure.done
  /\ pure' = [pure EXCEPT !.done = TRUE,
                          !.out = InstallPathsOf(pure.in.root, env, pure.in.name)]
  /\ UNCHANGED <<dialect, bin, files, call, ncalls, env, last_write>>

NextRoot == ApplyRoot

SpecRoot == InitRoot /\ [][NextRoot]_vars

(***************************************************************************)
(* The precedence of the sources of the root                               *)
(***************************************************************************)
RootDone == pure.op = "root" /\ pure.done

\* The home-directory variable of the platform.
HomeVariable == IF dialect = "windows" THEN env.USERPROFILE ELSE env.HOME

\* The directory a root argument or the override variable names: the
\* directory itself, the target of a link, nothing when it is not there.
DirectoryNamed(path) ==
  CASE path = ROOT_DIR -> Some(ROOT_DIR)
    [] path = LINK_DIR -> Some(ROOT_DIR)
    [] OTHER -> None

\* C12: the root is the directory the root argument names when there is
\* one; else the directory the override variable names when it is set and
\* not empty; else the home-directory variable of the platform with .deno
\* appended; with none of the three the call fails with the home-not-found
\* error.  A source that comes first is not passed over when its
\* directory is not there: the call fails.  The launcher path is the
\* launcher's file name in the bin subdirectory of the root.
C12_RootPrecedence ==
  RootDone =>
    LET override == env.DENO_INSTALL_ROOT
        chosen ==
          IF pure.in.root # None THEN DirectoryNamed(Unwrap(pure.in.root))
          ELSE IF override # None /\ Unwrap(override) # ""
            THEN DirectoryNamed(Unwrap(override))
          ELSE IF HomeVariable # None THEN Some(Unwrap(HomeVariable) \o "/.deno")
          ELSE None
        none_available ==
          /\ pure.in.root = None
          /\ override = None \/ override = Some("")
          /\ HomeVariable = None
    IN /\ pure.out.root = chosen
       /\ pure.out.error = None <=> chosen # None
       /\ none_available <=> pure.out.error = Some("HomeNotFound")
       /\ chosen # None =>
            /\ pure.out.installation_dir = Some(Unwrap(chosen) \o "/bin")
            /\ pure.out.file_path =
                 Some(Unwrap(chosen) \o "/bin/echo_test"
                        \o (IF dialect = "windows" THEN ".cmd" ELSE ""))

\* The test install_basic: no root argument, the override variable set to
\* the empty string, and the launcher under the home directory's .deno/bin.
C12_Witness ==
  /\ RootDone
  /\ pure.in.root = None
  /\ env.DENO_INSTALL_ROOT = Some("")
  /\ env.HOME = Some("/home/u")
  /\ dialect = "posix"
  /\ pure.out.file_path = Some("/home/u/.deno/bin/echo_test")

(***************************************************************************)
(* The installation directory                                              *)
(***************************************************************************)
\* The root of the call resolves: to ROOT_DIR, as the set-up has it.
RootResolves(p) == RootOf(call[p].req.root, env).error = None

\* C13: a call whose root resolves and whose <root>/bin is there and is no
\* directory when the call begins changes no file and leaves bin as it is
\* at every point, goes no further than the root stage and returns the
\* not-a-directory error.
C13_NotADirectory ==
  \A p \in Procs :
    (InCall(p) /\ RootResolves(p) /\ call[p].preBin = "file") =>
      /\ files = call[p].pre
      /\ bin = "file"
      /\ call[p].touched = {}
      /\ call[p].pc \in {"root", "returned"}
      /\ call[p].pc = "returned" => call[p].result = Some("NotADirectory")

\* A forced call with a config and a lock file to copy has returned the
\* not-a-directory error.
C13_Witness ==
  \E p \in Procs :
    /\ Returned(p)
    /\ call[p].preBin = "file"
    /\ call[p].req.force
    /\ call[p].req.flags.config_path = Some("test_tsconfig.json")
    /\ call[p].req.flags.lock = Some("lock.json")
    /\ call[p].result = Some("NotADirectory")

(***************************************************************************)
(* The copies of the config and the lock file                              *)
(***************************************************************************)
\* The text of the token after the flag in the argument vector, if any.
ValueOfFlag(args, flag) ==
  LET at == { i \in 1..(Len(args) - 1) : args[i] = <<flag>> } IN
    IF at = {} THEN None ELSE Some(Text(args[(CHOOSE i \in at : TRUE) + 1]))

\* The file holds exactly the content of the source.
HoldsSource(file, source) ==
  /\ file \in DOMAIN files
  /\ files[file].content = SourceFiles[source]

\* C14: in a call that has built its argument vector, the value of the
\* config flag is <bin>/<name>.tsconfig.json and that of the lock flag
\* <bin>/<name>.lock.json in both dialects, and a flag is there only for
\* an input that is set; when the call has succeeded, the launcher is the
\* rendering of that vector and each copy holds its source's content.
C14_CopyAndRedirect ==
  \A p \in Procs :
    (InCall(p) /\ call[p].executable_args # <<>>) =>
      LET c == call[p]
          name == Text(Unwrap(c.name))
          config == c.req.flags.config_path
          lock == c.req.flags.lock
      IN /\ ValueOfFlag(c.executable_args, "--config") =
              IF config = None THEN None
              ELSE Some("/tmp/root/bin/" \o name \o ".tsconfig.json")
         /\ ValueOfFlag(c.executable_args, "--lock") =
              IF lock = None THEN None
              ELSE Some("/tmp/root/bin/" \o name \o ".lock.json")
         /\ (c.pc = "returned" /\ c.result = Some("Ok")) =>
              /\ LauncherOf(Unwrap(c.name)) \in DOMAIN files
              /\ files[LauncherOf(Unwrap(c.name))].content =
                   LauncherText(c.executable_args)
              /\ config # None =>
                   HoldsSource(ConfigCopyOf(Unwrap(c.name)), Unwrap(config))
              /\ lock # None =>
                   HoldsSource(LockCopyOf(Unwrap(c.name)), Unwrap(lock))

\* The test install_with_config, on windows and with a lock file: the
\* launcher is echo_test.cmd and the copies are echo_test.tsconfig.json,
\* holding {}, and echo_test.lock.json.
C14_Witness ==
  \E p \in Procs :
    /\ Returned(p)
    /\ call[p].result = Some("Ok")
    /\ dialect = "windows"
    /\ call[p].name = Some(ECHO_TEST)
    /\ call[p].req.flags.config_path = Some("test_tsconfig.json")
    /\ call[p].req.flags.lock = Some("lock.json")
    /\ ValueOfFlag(call[p].executable_args, "--config") =
         Some("/tmp/root/bin/echo_test.tsconfig.json")
    /\ files[ECHO_TEST \o <<".">> \o TSCONFIG_EXT].content = <<"{}">>

(***************************************************************************)
(* ScriptEmitter on its own: the templates applied to argument vectors of  *)
(* up to MaxArgs tokens with quotes, spaces and percent signs              *)
(***************************************************************************)
MaxArgs == 2

\* The tokens: the argument of the test install_shell_escaping among them.
EscapeTokens ==
  { <<"a">>,
    <<"a", " ", "b">>,
    <<"it", "'", "s">>,
    <<"\"">>,
    <<"a", "\"", "b">>,
    <<"50", "%">>,
    <<"%", "PATH", "%">>,
    <<"'", " ", "\"">> }

InitEscape ==
  /\ dialect \in {"posix", "windows"}
  /\ bin = "dir"
  /\ files = <<>>
  /\ call = <<>>
  /\ ncalls = 0
  /\ env = NoEnv
  /\ last_write = <<>>
  /\ \E args \in SeqsUpTo(EscapeTokens, MaxArgs) :
       pure = [ op |-> "emit", in |-> args, done |-> FALSE, out |-> <<>> ]

\* generate_executable_file (not windows): the template, and the pieces of
\* its arguments
EmitPosix ==
  /\ pure.op = "emit"
  /\ ~pure.done
  /\ dialect = "posix"
  /\ pure' = [pure EXCEPT !.done = TRUE,
       !.out = << [ shell |-> "sh", text |-> PosixScript(pure.in),
                    before |-> "exec deno ", pieces |-> PosixArgPieces(pure.in),
                    after |-> " \"$@\"" ] >>]
  /\ UNCHANGED <<dialect, bin, files, call, ncalls, env, last_write>>

\* generate_executable_file (windows): the two templates, and the pieces of
\* their arguments
EmitWindows ==
  /\ pure.op = "emit"
  /\ ~pure.done
  /\ dialect = "windows"
  /\ pure' = [pure EXCEPT !.done = TRUE,
       !.out = << [ shell |-> "cmd", text |-> CmdScript(pure.in),
                    before |-> "@deno ", pieces |-> CmdArgPieces(pure.in),
                    after |-> " %*" ],
                  [ shell |-> "sh", text |-> CompanionScript(pure.in),
                    before |-> "deno ", pieces |-> CompanionArgPieces(pure.in),
                    after |-> " \"$@\"" ] >>]
  /\ UNCHANGED <<dialect, bin, files, call, ncalls, env, last_write>>

NextEscape == EmitPosix \/ EmitWindows

SpecEscape == InitEscape /\ [][NextEscape]_vars

(***************************************************************************)
(* What the target shell makes of a command line.  A line is read piece    *)
(* by piece: a piece is a quote, a backslash, a space, a percent sign, or  *)
(* a run of characters that mean nothing to either shell.                  *)
(***************************************************************************)
EmitDone == pure.op = "emit" /\ pure.done

\* The arguments forwarded at run time: "$@" in sh, %* in cmd.
FORWARDED == "<forwarded>"

Unparsed == [ok |-> FALSE, words |-> <<>>]

\* The pieces with the two-character pieces of the escaping taken apart.
Exploded(pieces) ==
  FlatMap(pieces, LAMBDA x : IF x = "'\\" THEN <<"'", "\\">>
                             ELSE IF x = "%%" THEN <<"%", "%">>
                             ELSE <<x>>)

RECURSIVE ShParse(_, _, _, _, _)
\* The words sh makes of a line: quote removal and field splitting; a line
\* that ends inside quotes, or forwards the arguments inside quotes or
\* within a word, is not parsed.
ShParse(rest, mode, cur, started, words) ==
  LET c == rest[1]
      more == Tail(rest)
      done == IF started THEN Append(words, cur) ELSE words
  IN IF rest = <<>>
       THEN IF mode = "plain" THEN [ok |-> TRUE, words |-> done] ELSE Unparsed
     ELSE IF mode = "plain"
       THEN IF c = " " THEN ShParse(more, "plain", <<>>, FALSE, done)
            ELSE IF c = "'" THEN ShParse(more, "single", cur, TRUE, words)
            ELSE IF c = "\"" THEN ShParse(more, "double", cur, TRUE, words)
            ELSE IF c = "\\"
              THEN IF more = <<>> THEN Unparsed
                   ELSE ShParse(Tail(more), "plain", Append(cur, more[1]), TRUE, words)
            ELSE IF c = FORWARDED
              THEN IF started THEN Unparsed
                   ELSE ShParse(more, "plain", <<>>, FALSE, Append(words, <<FORWARDED>>))
            ELSE ShParse(more, "plain", Append(cur, c), TRUE, words)
     ELSE IF mode = "single"
       THEN IF c = "'" THEN ShParse(more, "plain", cur, TRUE, words)
            ELSE IF c = FORWARDED THEN Unparsed
            ELSE ShParse(more, "single", Append(cur, c), TRUE, words)
     ELSE IF c = "\"" THEN ShParse(more, "plain", cur, TRUE, words)
          ELSE IF c = FORWARDED THEN Unparsed
          ELSE IF c = "\\" /\ more # <<>> /\ more[1] \in {"\"", "\\"}
            THEN ShParse(Tail(more), "double", Append(cur, more[1]), TRUE, words)
          ELSE ShParse(more, "double", Append(cur, c), TRUE, words)

RECURSIVE BatchPercent(_)
\* What cmd makes of the percent signs of a batch line: %% is a percent
\* sign; a single one would begin the name of a variable.
BatchPercent(rest) ==
  IF rest = <<>> THEN [ok |-> TRUE, pieces |-> <<>>]
  ELSE IF rest[1] # "%"
    THEN LET r == BatchPercent(Tail(rest)) IN
           [ok |-> r.ok, pieces |-> <<rest[1]>> \o r.pieces]
  ELSE IF Len(rest) >= 2 /\ rest[2] = "%"
    THEN LET r == BatchPercent(Tail(Tail(rest))) IN
           [ok |-> r.ok, pieces |-> <<"%">> \o r.pieces]
  ELSE [ok |-> FALSE, pieces |-> <<>>]

RECURSIVE ArgvParse(_, _, _, _, _)
\* The arguments the started program makes of its command line, by the
\* rules of the Rust standard library on windows: a quote opens or closes
\* a quoted part, and two quotes inside one are a quote.
ArgvParse(rest, quoted, cur, started, words) ==
  LET c == rest[1]
      more == Tail(rest)
      done == IF started THEN Append(words, cur) ELSE words
  IN IF rest = <<>> THEN [ok |-> TRUE, words |-> done]
     ELSE IF ~quoted
       THEN IF c = " " THEN ArgvParse(more, FALSE, <<>>, FALSE, done)
            ELSE IF c = "\"" THEN ArgvParse(more, TRUE, cur, TRUE, words)
            ELSE ArgvParse(more, FALSE, Append(cur, c), TRUE, words)
     ELSE IF c = "\"" /\ more # <<>> /\ more[1] = "\""
       THEN ArgvParse(Tail(more), TRUE, Append(cur, "\""), TRUE, words)
     ELSE IF c = "\"" THEN ArgvParse(more, FALSE, cur, TRUE, words)
     ELSE ArgvParse(more, TRUE, Append(cur, c), TRUE, words)

\* The words the script's target shell hands to deno for the command line
\* of the template, the forwarded arguments at its end.
ParsedBy(shell, pieces) ==
  LET line == Exploded(pieces) \o <<" ", FORWARDED>> IN
    IF shell = "sh" THEN ShParse(line, "plain", <<>>, FALSE, <<>>)
    ELSE LET r == BatchPercent(SubSeq(line, 1, Len(line) - 1)) IN
           IF ~r.ok THEN Unparsed
           ELSE ArgvParse(r.pieces \o <<FORWARDED>>, FALSE, <<>>, FALSE, <<>>)

Texts(tokens) == [i \in 1..Len(tokens) |-> Text(tokens[i])]

\* C15: each script of the active dialect has the template's line around
\* its arguments, and its target shell makes of that line exactly the
\* tokens given, each as one argument, before the forwarded arguments.
C15_RoundTrip ==
  EmitDone =>
    \A i \in 1..Len(pure.out) :
      LET script == pure.out[i]
          parsed == ParsedBy(script.shell, script.pieces)
      IN /\ script.text[Len(script.text)] =
              script.before \o Text(script.pieces) \o script.after
         /\ parsed.ok
         /\ Texts(parsed.words) = Texts(pure.in) \o <<FORWARDED>>

(***************************************************************************)
(* The order of the stages                                                 *)
(***************************************************************************)
\* What each stage has to say of the call's request, given the files and
\* the bin that were there when the call began.
RootStageFails(p) == ~RootResolves(p) \/ call[p].preBin = "file"

NameStageError(p) ==
  IF ~call[p].req.module_url.resolves THEN Some("UrlResolution")
  ELSE ResolveNameOf(call[p].req.name, call[p].req.module_url).error

ConflictFound(p) == LauncherWasThere(p) /\ ~call[p].req.force

\* The errors of each stage.
RootErrors ==
  { Some("RootIo"), Some("HomeNotFound"), Some("NotADirectory"), Some("CreateDirIo") }

NameErrors == { Some("UrlResolution"), Some("MissingName"), Some("InvalidName") }

SerializeErrors == { Some("InvalidLogLevel"), Some("AuxiliaryFileRead") }

WriteResults == { Some("EmitIo"), Some("ExtraWriteIo"), Some("Ok") }

\* C16: the result of a call is that of the first stage that fails, in
\* the order root, name, conflict check, serialization, write: a root
\* that does not resolve or a bin that is no directory before every other
\* error, a name error before the existing-installation error, that
\* error before the log-level and the read errors, and those before any
\* write.  A call that is in or has failed in a stage has none of the
\* effects of a later one: no name or launcher path before the name stage
\* is through, no argument vector before the serialization is, no file
\* touched before the write stage.
C16_StageOrder ==
  \A p \in Procs :
    InCall(p) =>
      LET c == call[p]
          failed_in(errors) == c.pc = "returned" /\ c.result \in errors
          past_root == c.pc # "root" /\ ~failed_in(RootErrors)
          past_name == past_root /\ c.pc # "name"
                         /\ ~failed_in(NameErrors \cup {Some("AlreadyExists")})
          past_args == past_name /\ c.pc # "args" /\ ~failed_in(SerializeErrors)
      IN /\ c.pc = "returned" =>
              /\ c.result \in RootErrors \cup NameErrors \cup {Some("AlreadyExists")}
                                \cup SerializeErrors \cup WriteResults
              /\ RootStageFails(p) <=> c.result \in RootErrors \ {Some("CreateDirIo")}
              /\ c.result = Some("CreateDirIo") => c.preBin = "missing"
              /\ (past_root /\ NameStageError(p) # None) => c.result = NameStageError(p)
              /\ c.result \in NameErrors => c.result = NameStageError(p)
              /\ (past_root /\ NameStageError(p) = None) =>
                   (ConflictFound(p) <=> c.result = Some("AlreadyExists"))
              /\ (past_name /\ SerializeError(c.req.flags) # None) =>
                   c.result = SerializeError(c.req.flags)
              /\ c.result \in SerializeErrors => c.result = SerializeError(c.req.flags)
              /\ c.result \in WriteResults => past_args
         /\ ~past_root => bin = c.preBin
         /\ ~past_name => c.name = None /\ c.file_path = None
         /\ ~past_args =>
              /\ c.executable_args = <<>>
              /\ c.extra_files = <<>>
              /\ c.touched = {}
              /\ files = c.pre

\* A call without force over an existing launcher, with the log level
\* Warn, has returned the existing-installation error; so has one whose
\* config source cannot be read.
C16_Witness ==
  \E p \in Procs :
    /\ Returned(p)
    /\ ~call[p].req.force
    /\ LauncherWasThere(p)
    /\ \/ call[p].req.flags.log_level = Some("Warn")
       \/ call[p].req.flags.config_path = Some("gone.json")
    /\ SerializeError(call[p].req.flags) # None
    /\ call[p].result = Some("AlreadyExists")

(***************************************************************************)
(* The order of the writes                                                 *)
(***************************************************************************)
\* The call has written the files of its launcher, each to its end, and,
\* where the dialect has modes, made the launcher executable.
LauncherComplete(p) ==
  \A f \in RequiredFiles(Unwrap(call[p].file_path)) : UsableNew(p, f)

\* The call has written the copy, to its end.
CopyComplete(p, file, source) ==
  /\ file \in call[p].touched
  /\ HoldsSource(file, source)

\* The call has not written the file: it is as it was when the call began.
NotWritten(p, file) ==
  /\ file \notin call[p].touched
  /\ IF file \in DOMAIN call[p].pre
       THEN file \in DOMAIN files /\ files[file] = call[p].pre[file]
       ELSE file \notin DOMAIN files

\* C17: a call that has begun to write a copy has written its launcher,
\* complete; one that has begun to write the lock copy has written the
\* config copy, if it makes one, complete; a call that fails in writing a
\* copy leaves the launcher complete and, when it is the config copy that
\* failed, the lock copy not written.
C17_WriteOrder ==
  \A p \in Procs :
    (InCall(p) /\ call[p].name # None) =>
      LET c == call[p]
          name == Unwrap(c.name)
          config == c.req.flags.config_path
          lock == c.req.flags.lock
          config_done == CopyComplete(p, ConfigCopyOf(name), Unwrap(config))
      IN /\ ({ConfigCopyOf(name), LockCopyOf(name)} \cap c.touched # {}) =>
              LauncherComplete(p)
         /\ (LockCopyOf(name) \in c.touched /\ config # None) => config_done
         /\ ~LauncherComplete(p) =>
              NotWritten(p, ConfigCopyOf(name)) /\ NotWritten(p, LockCopyOf(name))
         /\ (c.pc = "returned" /\ c.result = Some("ExtraWriteIo")) =>
              /\ LauncherComplete(p)
              /\ (config # None /\ ~config_done) => NotWritten(p, LockCopyOf(name))

\* A forced call over an installation with both copies has failed in
\* writing the config copy: the launcher is the new one, the config copy
\* is cut short and the lock copy is the old one.
C17_Witness ==
  \E p \in Procs :
    /\ Returned(p)
    /\ call[p].result = Some("ExtraWriteIo")
    /\ call[p].req.flags.config_path # None
    /\ call[p].req.flags.lock # None
    /\ LauncherComplete(p)
    /\ call[p].req.module_url = ModCat
    /\ LauncherOf(Unwrap(call[p].name)) \in DOMAIN call[p].pre
    /\ files[LauncherOf(Unwrap(call[p].name))] #
         call[p].pre[LauncherOf(Unwrap(call[p].name))]
    /\ ConfigCopyOf(Unwrap(call[p].name)) \in call[p].touched
    /\ files[ConfigCopyOf(Unwrap(call[p].name))].content = <<>>
    /\ LockCopyOf(Unwrap(call[p].name)) \in DOMAIN call[p].pre
    /\ NotWritten(p, LockCopyOf(Unwrap(call[p].name)))

(***************************************************************************)
(* Two processes installing the same name at once                          *)
(***************************************************************************)
\* The calls of the two processes: the same name under the same root,
\* without force, for modules and flags whose launchers differ in length.
RaceRequests ==
  [ flags : { DefaultFlags,
              [DefaultFlags EXCEPT !.config_path = Some("test_tsconfig.json")] },
    module_url : ModuleChoices, args : { <<>> },
    name : { Some(ECHO_TEST) }, root : { Some(ROOT_DIR) }, force : { FALSE } ]

InitRace ==
  /\ dialect \in {"posix", "windows"}
  /\ bin \in {"missing", "dir"}
  /\ files = <<>>
  /\ call = [p \in Procs |-> Idle]
  /\ ncalls = 0
  /\ pure = NoPure
  /\ env = TestEnv
  /\ last_write = <<>>

\* A process begins a call of install while the other may be in one.
CallRace(p) ==
  /\ Active(p)
  /\ call[p].pc \in {"idle", "returned"}
  /\ ncalls < MaxCalls
  /\ \E req \in RaceRequests :
       call' = [call EXCEPT ![p] =
                  [Idle EXCEPT !.pc = "root", !.req = req,
                               !.pre = files, !.preBin = bin]]
  /\ ncalls' = ncalls + 1
  /\ UNCHANGED <<dialect, bin, files, pure, env, last_write>>

NextRace ==
  \E p \in Procs :
    \/ CallRace(p)
    \/ ResolveRoot(p)
    \/ ResolveName(p)
    \/ SerializeArgs(p)
    \/ CreateLauncher(p)
    \/ WriteLauncher(p)
    \/ SetPermissions(p)
    \/ CreateCompanion(p)
    \/ WriteCompanion(p)
    \/ CreateExtra(p)
    \/ WriteExtra(p)
    \/ Finish(p)

SpecRace == InitRace /\ [][NextRace]_vars

\* The files a call writes when it succeeds, and the text it writes to each.
WrittenFiles(p) ==
  RequiredFiles(Unwrap(call[p].file_path))
    \cup { call[p].extra_files[j][1] : j \in DOMAIN call[p].extra_files }

WrittenText(p, f) ==
  IF f \in RequiredFiles(Unwrap(call[p].file_path))
    THEN RequiredText(Unwrap(call[p].file_path), f, call[p].executable_args)
  ELSE call[p].extra_files[CHOOSE j \in DOMAIN call[p].extra_files :
                             call[p].extra_files[j][1] = f][2]

\* Both processes have installed the same name without force, and both
\* calls have reported success.
BothSucceeded ==
  /\ \A p \in Procs : Returned(p) /\ call[p].result = Some("Ok")
                        /\ ~call[p].req.force
  /\ \A p, q \in Procs : call[p].name = call[q].name

\* C18 as stated: when both calls have succeeded, each file holds the text
\* of the process that wrote it last.
C18_AsStated ==
  BothSucceeded =>
    \A f \in DOMAIN last_write :
      files[f].content = WrittenText(last_write[f], f)

\* C18: when both calls have succeeded, each file begins with the whole
\* text of the process that wrote it last; it is that text alone, or that
\* text followed by the end of the longer text the other process wrote to
\* the same file.
C18_LastWriterPrefix ==
  BothSucceeded =>
    \A f \in DOMAIN last_write :
      LET text == WrittenText(last_write[f], f) IN
        /\ f \in WrittenFiles(last_write[f])
        /\ Len(files[f].content) >= Len(text)
        /\ SubSeq(files[f].content, 1, Len(text)) = text
        /\ \/ files[f].content = text
           \/ \E q \in Procs \ {last_write[f]} :
                /\ f \in WrittenFiles(q)
                /\ Size(WrittenText(q, f)) > Size(text)
                /\ files[f].content = Overlay(text, WrittenText(q, f))

\* Both calls passed the conflict check and succeeded, and the launcher
\* is the text of the one that wrote last, which is not the other's.
C18_Witness ==
  /\ BothSucceeded
  /\ \A p \in Procs : LauncherOf(ECHO_TEST) \notin DOMAIN call[p].pre
  /\ \E p, q \in Procs :
       LET f == Unwrap(call[p].file_path) IN
         /\ p # q
         /\ last_write[f] = p
         /\ files[f].content = WrittenText(p, f)
         /\ WrittenText(q, f) # WrittenText(p, f)

(***************************************************************************)
(* The files a call may write                                              *)
(***************************************************************************)
\* The files of bin a call that installs the name with these flags may
\* create or change: the launcher, its companion where the dialect has
\* one, and the copy of each of the config and the lock file that is set.
MayWrite(name, flags) ==
  RequiredFiles(LauncherOf(name))
    \cup (IF flags.config_path # None THEN {ConfigCopyOf(name)} ELSE {})
    \cup (IF flags.lock # None THEN {LockCopyOf(name)} ELSE {})

\* C19: in every state of a call that has resolved its name, and so when
\* it has succeeded, every file of bin other than the launcher file(s) of
\* the name and the copies asked for is there as it was when the call
\* began, and no other file has been made; a successful call has written
\* each of the files it may write.
C19_Frame ==
  \A p \in Procs :
    (InCall(p) /\ call[p].name # None) =>
      LET c == call[p]
          may == MayWrite(Unwrap(c.name), c.req.flags)
      IN /\ c.touched \subseteq may
         /\ \A f \in (DOMAIN files \cup DOMAIN c.pre) \ may :
              /\ f \in DOMAIN c.pre
              /\ f \in DOMAIN files
              /\ files[f] = c.pre[f]
         /\ (c.pc = "returned" /\ c.result = Some("Ok")) => c.touched = may

\* A call with an import map, a config and a lock file has succeeded in a
\* bin that held the installation of another name and nothing of its own:
\* the files of the other name are as before, and bin holds nothing else
\* but the launcher file(s) and the two copies of the call's name.
C19_Witness ==
  \E p \in Procs :
    LET c == call[p] IN
      /\ Returned(p)
      /\ c.result = Some("Ok")
      /\ c.req.flags.import_map_path # None
      /\ c.name = Some(ECHO_TEST)
      /\ \E other \in {infer_name_from_url(ModEcho.path),
                         infer_name_from_url(ModCat.path)} :
           /\ other # None
           /\ {LauncherOf(Unwrap(other)), ConfigCopyOf(Unwrap(other)),
               LockCopyOf(Unwrap(other))} \subseteq DOMAIN c.pre
           /\ \A f \in DOMAIN c.pre : f \in DOMAIN files /\ files[f] = c.pre[f]
           /\ DOMAIN files =
                DOMAIN c.pre \cup MayWrite(ECHO_TEST, c.req.flags)
           /\ DOMAIN c.pre \cap MayWrite(ECHO_TEST, c.req.flags) = {}

(***************************************************************************)
(* The bin directory after the root stage                                  *)
(***************************************************************************)
\* The call is past the resolution of its root, which succeeded, and
\* <root>/bin was not there as something other than a directory.
PastRoot(p) ==
  /\ InCall(p)
  /\ call[p].pc # "root"
  /\ RootResolves(p)
  /\ call[p].preBin # "file"

\* C20 as stated: in every state of a call past the resolution of its
\* root, with <root>/bin not a non-directory, the bin directory exists.
C20_AsStated == \A p \in Procs : PastRoot(p) => bin = "dir"

\* C20: in every state of a call past the resolution of its root, with
\* <root>/bin not a non-directory, the bin directory exists, whatever the
\* call does or fails on afterwards, unless making the directory is what
\* failed: then the call has returned that error, bin is still missing
\* and no file has been made or changed.
C20_BinExists ==
  \A p \in Procs :
    PastRoot(p) =>
      /\ call[p].result # Some("CreateDirIo") => bin = "dir"
      /\ call[p].result = Some("CreateDirIo") =>
           /\ call[p].pc = "returned"
           /\ call[p].preBin = "missing"
           /\ bin = "missing"
           /\ files = call[p].pre
           /\ call[p].touched = {}

\* A call has made the missing bin directory and then failed to resolve
\* its module reference: it has returned, and the directory is there.
C20_Witness ==
  \E p \in Procs :
    /\ PastRoot(p)
    /\ Returned(p)
    /\ call[p].result = Some("UrlResolution")
    /\ call[p].preBin = "missing"
    /\ bin = "dir"
    /\ files = <<>>

(***************************************************************************)
(* A supplied name and the inferred one                                    *)
(***************************************************************************)
\* C21: the resolution of a supplied name is that of the name alone,
\* whatever the URL: the name itself when validate_name accepts it, the
\* invalid-name error when it does not, even for a URL that infers a
\* valid name; without a supplied name the resolution is that of the
\* inferred one, and the missing-name error when the URL infers none.
C21_SuppliedNameWins ==
  ResolveDone =>
    LET supplied == pure.in.name
        inferred == infer_name_from_url(UrlPath(pure.in))
    IN /\ supplied # None =>
            /\ pure.out.name = supplied
            /\ pure.out.error =
                 IF validate_name(Unwrap(supplied)) THEN None ELSE Some("InvalidName")
       /\ (supplied = None /\ inferred = None) =>
            pure.out = [error |-> Some("MissingName"), name |-> None]
       /\ (supplied = None /\ inferred # None) =>
            /\ pure.out.name = inferred
            /\ pure.out.error =
                 IF validate_name(Unwrap(inferred)) THEN None ELSE Some("InvalidName")

\* The supplied name abc@1 was resolved for a URL that infers the valid
\* name cli: the result is the invalid-name error for abc@1.
C21_Witness ==
  /\ ResolveDone
  /\ pure.in.name = Some(<<"a","b","c","@","1">>)
  /\ infer_name_from_url(UrlPath(pure.in)) = Some(<<"c","l","i">>)
  /\ validate_name(<<"c","l","i">>)
  /\ pure.out = [error |-> Some("InvalidName"), name |-> Some(<<"a","b","c","@","1">>)]

(***************************************************************************)
(* The tokens of the log level                                             *)
(***************************************************************************)
\* The tokens the log level adds to the argument vector: what the vector
\* has more than that of the same request without a log level.
LogTokens ==
  LET with == pure.out.executable_args
      without == ExecutableArgs([pure.in.flags EXCEPT !.log_level = None],
                                pure.in.module_url, pure.in.args, ECHO_TEST)
      k == Len(with) - Len(without)
      at == { i \in 0..Len(without) :
                with = SubSeq(without, 1, i) \o SubSeq(with, i + 1, i + k)
                         \o SubSeq(without, i + 1, Len(without)) }
  IN IF k < 0 \/ at = {} THEN << <<"?">> >>
     ELSE SubSeq(with, (CHOOSE i \in at : TRUE) + 1, (CHOOSE i \in at : TRUE) + k)

\* C22 as stated: the log level gives one token, --quiet for Error and
\* --log-level=<name> for Debug and Info, and none when it is not set.
C22_AsStated ==
  (SerializeDone /\ pure.out.error = None) =>
    LogTokens =
      (CASE pure.in.flags.log_level = None -> <<>>
         [] pure.in.flags.log_level = Some("Error") -> <<Tok("--quiet")>>
         [] pure.in.flags.log_level = Some("Debug") -> <<Tok("--log-level=debug")>>
         [] pure.in.flags.log_level = Some("Info") -> <<Tok("--log-level=info")>>)

\* C22: the log level gives the one token --quiet for Error, the two
\* tokens --log-level and debug or info for Debug and Info, and no token
\* when it is not set; for Warn and Trace the serialization fails and
\* gives no vector.
C22_LogLevelTokens ==
  SerializeDone =>
    /\ pure.out.error = None =>
         LogTokens =
           (CASE pure.in.flags.log_level = None -> <<>>
              [] pure.in.flags.log_level = Some("Error") -> <<Tok("--quiet")>>
              [] pure.in.flags.log_level = Some("Debug") ->
                   <<Tok("--log-level"), Tok("debug")>>
              [] pure.in.flags.log_level = Some("Info") ->
                   <<Tok("--log-level"), Tok("info")>>)
    /\ pure.in.flags.log_level \in {Some("Warn"), Some("Trace")} =>
         /\ pure.out.error = Some("InvalidLogLevel")
         /\ pure.out.executable_args = <<>>

\* A request with the level Debug among other flags, and --quiet among
\* the arguments passed on, was serialized.
C22_Witness ==
  /\ SerializeDone
  /\ pure.out.error = None
  /\ pure.in.flags.log_level = Some("Debug")
  /\ pure.in.flags.allow_net
  /\ pure.in.flags.no_check
  /\ pure.in.args # <<>>
  /\ pure.in.args[1] = Tok("--quiet")
  /\ LogTokens = <<Tok("--log-level"), Tok("debug")>>

(***************************************************************************)
(* The companion script and the script of the other dialect                *)
(***************************************************************************)
\* C23: for every argument vector, the extensionless file of the windows
\* dialect is the text the posix dialect emits for the same vector, and
\* the .cmd file has each token in double quotes with its percent signs
\* doubled.
C23_CompanionIsPosix ==
  (EmitDone /\ dialect = "windows") =>
    /\ pure.out[2].text = PosixScript(pure.in)
    /\ pure.out[1].pieces =
         JoinWith(MapSeq(pure.in, LAMBDA tok : DoublePercent(DQuote(tok))), <<" ">>)

(***************************************************************************)
(* The names of the files of bin                                           *)
(***************************************************************************)
\* A file name taken apart at its first dot: valid names have none.
StemOf(f) ==
  LET i == IndexOf(f, ".", 1) IN IF i = 0 THEN f ELSE SubSeq(f, 1, i - 1)

ExtensionOf(f) ==
  LET i == IndexOf(f, ".", 1) IN IF i = 0 THEN <<>> ELSE SubSeq(f, i + 1, Len(f))

\* The extensions a launcher file has in the dialect: none on posix, cmd
\* and none (the script for sh) on windows.
LauncherExtensions == IF dialect = "windows" THEN {CMD_EXT, <<>>} ELSE {<<>>}

\* C24: in every state of every run that begins with an empty bin, each
\* file of bin is a launcher file, named by a string that matches
\* EXEC_NAME_RE with the extension of the dialect, or is named
\* <N>.tsconfig.json or <N>.lock.json for such a string N whose launcher
\* is in bin too.
C24_FileNames ==
  \A f \in DOMAIN files :
    /\ EXEC_NAME_RE_is_match(StemOf(f))
    /\ \/ ExtensionOf(f) \in LauncherExtensions
       \/ /\ ExtensionOf(f) \in {TSCONFIG_EXT, LOCK_EXT}
          /\ LauncherOf(StemOf(f)) \in DOMAIN files

\* After an installation with both copies, a call with the name abc@1
\* has returned the invalid-name error: bin holds the launcher and the
\* copies of the first name and nothing named by the second.
C24_Witness ==
  \E p \in Procs :
    /\ Returned(p)
    /\ call[p].req.name = Some(INVALID_NAME)
    /\ call[p].result = Some("InvalidName")
    /\ DOMAIN files =
         RequiredFiles(LauncherOf(ECHO_TEST))
           \cup {ConfigCopyOf(ECHO_TEST), LockCopyOf(ECHO_TEST)}

(***************************************************************************)
(* The same forced request run twice in a row                              *)
(***************************************************************************)
\* The forced requests that are run, and run again.
TwiceRequests ==
  [ flags : { DefaultFlags,
              [DefaultFlags EXCEPT !.import_map_path = Some(ImportMap),
                                   !.config_path = Some("test_tsconfig.json"),
                                   !.lock = Some("lock.json")] },
    module_url : ModuleChoices, args : { <<>> },
    name : NameChoices, root : { Some(ROOT_DIR), None }, force : { TRUE } ]

\* install is called with a forced request.
CallFirst(p) ==
  /\ Active(p)
  /\ call[p].pc \in {"idle", "returned"}
  /\ ncalls < MaxCalls
  /\ \E req \in TwiceRequests :
       call' = [call EXCEPT ![p] =
                  [Idle EXCEPT !.pc = "root", !.req = req,
                               !.pre = files, !.preBin = bin]]
  /\ ncalls' = ncalls + 1
  /\ pure' = NoPure
  /\ UNCHANGED <<dialect, bin, files, env, last_write>>

\* install has returned Ok and is called again with the same request, the
\* environment and the source files being what they were; pure keeps the
\* request and the files of bin as the first run left them.
CallAgain(p) ==
  /\ Active(p)
  /\ call[p].pc = "returned"
  /\ call[p].result = Some("Ok")
  /\ ncalls < MaxCalls
  /\ call' = [call EXCEPT ![p] =
                [Idle EXCEPT !.pc = "root", !.req = call[p].req,
                             !.pre = files, !.preBin = bin]]
  /\ ncalls' = ncalls + 1
  /\ pure' = [op |-> "again", in |-> call[p].req, done |-> TRUE, out |-> files]
  /\ UNCHANGED <<dialect, bin, files, env, last_write>>

NextTwice ==
  \E p \in Procs :
    \/ CallFirst(p)
    \/ CallAgain(p)
    \/ ResolveRoot(p)
    \/ ResolveName(p)
    \/ SerializeArgs(p)
    \/ CreateLauncher(p)
    \/ WriteLauncher(p)
    \/ SetPermissions(p)
    \/ CreateCompanion(p)
    \/ WriteCompanion(p)
    \/ CreateExtra(p)
    \/ WriteExtra(p)
    \/ Finish(p)

SpecTwice == Init /\ [][NextTwice]_vars

\* The call is the second run of a request whose first run succeeded.
SecondRun(p) == InCall(p) /\ pure.op = "again" /\ call[p].req = pure.in

\* The errors of the steps on the file system, which the request and the
\* environment do not decide.
StepFailures == { Some("EmitIo"), Some("ExtraWriteIo") }

\* C25: the second run of a forced request after a first run that
\* succeeded fails at no check of install (root, bin directory, name,
\* conflict, serialization): it ends, unless one of its writes fails, with
\* Ok, and then the files of bin, with their content and modes, and bin
\* itself are exactly what the first run left.
C25_ForcedTwice ==
  \A p \in Procs :
    SecondRun(p) =>
      /\ call[p].req.force
      /\ call[p].pre = pure.out
      /\ bin = "dir"
      /\ call[p].pc = "returned" => call[p].result \in {Some("Ok")} \cup StepFailures
      /\ (call[p].pc = "returned" /\ call[p].result = Some("Ok")) =>
           /\ files = pure.out
           /\ DOMAIN files # {}

\* The second run of a forced request with a config and a lock file has
\* returned Ok over the launcher and the copies of the first.
C25_Witness ==
  \E p \in Procs :
    /\ SecondRun(p)
    /\ Returned(p)
    /\ call[p].result = Some("Ok")
    /\ call[p].req.flags.config_path # None
    /\ call[p].req.flags.lock # None
    /\ MayWrite(Unwrap(call[p].name), call[p].req.flags) \subseteq DOMAIN pure.out
    /\ call[p].touched = MayWrite(Unwrap(call[p].name), call[p].req.flags)
    /\ files = pure.out

====
